---- MODULE Spec2Model ----
(***************************************************************************)
(* The store / flush-scheduler / durable-writer layer of the WhatsApp WML  *)
(* gateway: src/persistentStorage.js (class PersistentStorage) and the     *)
(* store-mutating handlers of src/serverWml.js.                            *)
(*                                                                         *)
(* Time is counted in seconds.  The two thread-length constants of the     *)
(* program are scaled by 1/100 (200 -> 2, 100 -> 1) so that threads that   *)
(* reach and pass them can be enumerated; their ratio is kept.             *)
(***************************************************************************)
EXTENDS Integers, Sequences, FiniteSets, TLC

\* ------------------------------------------------------------------ bounds
\* Message ids are 1..MaxMsgId.
MaxMsgId == 3
\* Longest thread a history batch may build (the code sets no limit there).
MaxThreadLen == 3
\* performInitialSync calls counted before the counter is reset.
MaxSyncAttempts == 2
\* performInitialSync calls and retry timers outstanding at a time.
MaxSyncRuns == 1
\* Live appends to one thread in the cap scenario (ids 1..MaxAppends).
MaxAppends == 5
\* Backups written by exportData.
MaxBackups == 2
\* Reconnect timers armed at a time.
MaxReconnects == 1
\* Replies the upstream has ready for one loadChatHistory call.
MaxFetches == 3

\* ------------------------------------------------------- program constants
\* serverWml.js:2813  if (chatMessages.length > 200)   (scaled by 1/100)
LiveCap == 2
\* serverWml.js:2939  cleanupOldMessages(messageStore, chatStore, 100)  (scaled by 1/100)
MaxMessagesPerChat == 1
\* persistentStorage.js:79  setTimeout(..., 2000)   (in seconds)
Debounce == 2

Names == {"contacts", "chats", "messages", "meta"}
Jids == {"j1", "j2"}
MsgIds == 1..MaxMsgId
\* msg.key.id of a message that carries no id
NoId == 0
\* c.id of a contact update that carries no id
NoJid == ""
\* exitCode while process.exit has not been called
NoExit == 2

VARIABLES
  contactStore,   \* Map jid -> contact record
  chatStore,      \* Map jid -> array of messages (arrival order)
  messageStore,   \* Map message id -> message
  isFullySynced,
  syncAttempts,
  saveQueue,      \* Map type -> data, in insertion order
  isProcessing,
  timers,         \* armed debounce timers: seconds left of each
  flushing,       \* operations a running processSaveQueue has still to write
  files,          \* the four target files
  tmpFiles,       \* their '.tmp' siblings
  backups,        \* the files of the backups directory, in the order written
  paging,         \* the last loadChatHistory call: what the upstream replied, how
                  \* the call ended, what it returned and what it saved
  alive,          \* the process is running
  phase,          \* position of gracefulShutdown: running, saving, closing, exited
  saved,          \* immediate saves this gracefulShutdown has completed
  sock,           \* the upstream connection: none, open, ended
  exitCode,       \* status passed to process.exit (NoExit while running)
  connectionState,\* the connection field of the last connection.update
  syncFetching,   \* performInitialSync calls awaiting groupFetchAllParticipating
  syncSettling,   \* performInitialSync calls in their wait for chats
  syncRetry,      \* armed setTimeout(performInitialSync, ...) timers
  reconnects,     \* armed setTimeout(connectWithBetterSync, ...) timers: their delays (s)
  \* observations of the run (no code reads them)
  age,            \* seconds since the signal that last took Idle -> PendingFlush
  signals,        \* per name: signals since that transition (2 = two or more)
  writes,         \* per name: saveToFile calls of the flush of the last timer
  late,           \* per name: signalled while a flush was writing its batch
  owed,           \* names signalled and not handed to saveToFile since
  lastWrite,      \* what the last scheduled saveToFile serialized, and the live record then
  trimmed,        \* ids removed from a thread by trimming and not appended since
  lastOp,         \* the operation that ran last
  lastSignals,    \* the names the last operation signalled with queueSave
  lastError,      \* how the last saveToFile failure ended: none, logged, surfaced
  flushed         \* the in-memory state a completed shutdown flush wrote, while
                  \* nothing was signalled or written after it

storeVars == <<contactStore, chatStore, messageStore, isFullySynced, syncAttempts>>
schedVars == <<saveQueue, isProcessing, timers, flushing>>
diskVars  == <<files, tmpFiles, backups, paging>>
connVars  == <<connectionState, syncFetching, syncSettling, syncRetry, reconnects>>
lifeVars  == <<phase, saved, sock, exitCode, connVars>>
obsVars   == <<age, signals, writes, late, owed, lastWrite, trimmed, lastOp,
               lastSignals, lastError, flushed>>
vars == <<storeVars, schedVars, diskVars, alive, lifeVars, obsVars>>

\* ------------------------------------------------------------- documents
\* A file is absent (doc = <<>>), complete (doc = <<d>>) or some truncated
\* prefix of a document (partial), which does not parse.
Absent == [partial |-> FALSE, doc |-> <<>>]
Complete(d) == [partial |-> FALSE, doc |-> <<d>>]
Partial == [partial |-> TRUE, doc |-> <<>>]

\* Array.from(map.entries()): the key/value pairs of a Map.
Entries(m) == {<<k, m[k]>> : k \in DOMAIN m}

EmptyMap == [k \in {} |-> {}]

\* serverWml.js saveMeta: the object built when saveMeta() is called
\* (lastSync, a wall-clock string, is "now").
MetaSnapshot(contacts, chats, messages, synced, attempts) ==
  [isFullySynced |-> synced,
   syncAttempts |-> attempts,
   lastSync |-> "now",
   contactsCount |-> Cardinality(DOMAIN contacts),
   chatsCount |-> Cardinality(DOMAIN chats),
   messagesCount |-> Cardinality(DOMAIN messages)]

\* The data argument of queueSave: the live Map itself (a reference), or an
\* object built by the caller.
LiveRef == [live |-> TRUE, val |-> <<>>]
Value(v) == [live |-> FALSE, val |-> <<v>>]

Min(a, b) == IF a < b THEN a ELSE b

\* ------------------------------------------------------ Durable Writer
\* The outcomes of one saveToFile call: writeFileSync and renameSync run
\* back to back with no await between them, so only an I/O error or the
\* death of the process can separate them.
WriteOutcomes == {"ok", "open_error", "write_error", "rename_error",
                  "crash_in_write", "crash_before_rename"}
CrashOutcomes == {"crash_in_write", "crash_before_rename"}

\* JSON.stringify on one message: strings and numbers are kept, a byte
\* array (the media key of a media message) becomes a plain object.
JsonMessage(m) == [m EXCEPT !.media = IF @ = "bytes" THEN "object" ELSE @]
JsonThread(thread) == [k \in 1..Len(thread) |-> JsonMessage(thread[k])]

\* persistentStorage.js saveToFile, the switch: the document a call serializes.
\* A collection is serialized from the Map object it was handed, which is
\* the live store; meta is serialized from the object handed over.
Serialize(type, data, contacts, chats, messages) ==
  IF data.live
  THEN CASE type = "contacts" -> Entries(contacts)
         [] type = "chats" -> Entries([j \in DOMAIN chats |-> JsonThread(chats[j])])
         [] type = "messages" ->
              Entries([i \in DOMAIN messages |-> JsonMessage(messages[i])])
         [] OTHER -> {}
  ELSE data.val[1]

\* A writer that writes the target file in place, with no temporary file.
SaveToFileInPlace(d, type, doc, outcome) ==
  IF type \notin Names THEN d
  ELSE CASE outcome \in {"ok", "rename_error", "crash_before_rename"} ->
              [d EXCEPT !.files[type] = Complete(doc)]
         [] outcome = "open_error" -> d
         [] OTHER -> [d EXCEPT !.files[type] = Partial]

\* persistentStorage.js saveToFile, lines 129-132: write '<target>.tmp',
\* then rename it over the target.  d = [files, tmpFiles].
SaveToFile(d, type, doc, outcome) ==
  IF type \notin Names THEN d
  ELSE CASE outcome = "ok" ->
              [files |-> [d.files EXCEPT ![type] = Complete(doc)],
               tmpFiles |-> [d.tmpFiles EXCEPT ![type] = Absent]]
         [] outcome = "open_error" -> d
         [] outcome \in {"write_error", "crash_in_write"} ->
              [d EXCEPT !.tmpFiles[type] = Partial]
         [] OTHER ->  \* rename_error, crash_before_rename
              [d EXCEPT !.tmpFiles[type] = Complete(doc)]

Disk == [files |-> files, tmpFiles |-> tmpFiles]

\* ------------------------------------------------------------- loadAllData
\* new Map(pairs): the Map of an array of key/value pairs.
FromEntries(e) == [k \in {p[1] : p \in e} |-> (CHOOSE p \in e : p[1] = k)[2]]

\* { ...a, ...b }: the fields of b override those of a.
Merge(a, b) == [f \in DOMAIN a \cup DOMAIN b |-> IF f \in DOMAIN b THEN b[f] ELSE a[f]]

\* persistentStorage.js:24-33, the result loadAllData starts from
DefaultMeta == [lastSync |-> "null", isFullySynced |-> FALSE, syncAttempts |-> 0]
EmptyResult ==
  [contacts |-> EmptyMap, chats |-> EmptyMap, messages |-> EmptyMap, meta |-> DefaultMeta]

\* the order of the four blocks inside the try of loadAllData
LoadOrder == <<"contacts", "chats", "messages", "meta">>

\* A file that exists and is no JSON document makes JSON.parse throw.
Corrupt == Partial

\* persistentStorage.js:35-69: the four blocks run in order inside one try;
\* an absent file is skipped, a file that does not parse throws, and the
\* catch returns the result as it stands.
RECURSIVE LoadFrom(_, _, _)
LoadFrom(f, k, result) ==
  IF k > Len(LoadOrder) THEN result
  ELSE LET n == LoadOrder[k]
       IN IF f[n] = Absent THEN LoadFrom(f, k + 1, result)
          ELSE IF f[n].partial THEN result
          ELSE LoadFrom(f, k + 1,
                 [result EXCEPT ![n] = IF n = "meta" THEN Merge(@, f[n].doc[1])
                                       ELSE FromEntries(f[n].doc[1])])

\* A loader that reads without fs.existsSync: any absent file throws and
\* nothing is loaded.
LoadAllDataNoExistsCheck(f) ==
  IF \E n \in Names : f[n] = Absent THEN EmptyResult ELSE LoadFrom(f, 1, EmptyResult)

LoadAllData(f) == LoadFrom(f, 1, EmptyResult)

\* ------------------------------------------------------ Flush Scheduler
\* A queue that keeps every signal instead of one entry per name.
MapSetQueued(q, type, data) == Append(q, [type |-> type, data |-> data])

\* Map.prototype.set on the insertion-ordered saveQueue.
MapSet(q, type, data) ==
  IF \E i \in 1..Len(q) : q[i].type = type
  THEN [i \in 1..Len(q) |->
          IF q[i].type = type THEN [type |-> type, data |-> data] ELSE q[i]]
  ELSE Append(q, [type |-> type, data |-> data])

\* A queueSave that restarts the timer on every signal.
QueueSaveRestart(s, type, data) ==
  [saveQueue |-> MapSet(s.saveQueue, type, data), isProcessing |-> TRUE,
   timers |-> <<Debounce>>]

\* A queueSave that marks the scheduler pending and arms no timer.
QueueSaveUnarmed(s, type, data) ==
  [s EXCEPT !.saveQueue = MapSet(s.saveQueue, type, data), !.isProcessing = TRUE]

\* A queueSave that arms a timer on every signal.
QueueSaveAlwaysArms(s, type, data) ==
  [saveQueue |-> MapSet(s.saveQueue, type, data), isProcessing |-> TRUE,
   timers |-> Append(s.timers, Debounce)]

\* persistentStorage.js queueSave.  s = [saveQueue, isProcessing, timers].
QueueSave(s, type, data) ==
  LET q == MapSet(s.saveQueue, type, data)
  IN IF ~s.isProcessing
     THEN [saveQueue |-> q, isProcessing |-> TRUE,
           timers |-> Append(s.timers, Debounce)]
     ELSE [s EXCEPT !.saveQueue = q]

\* A processSaveQueue that takes the batch and leaves isProcessing set.
ProcessSaveQueueStaysPending(s) ==
  [saveQueue |-> <<>>, isProcessing |-> s.isProcessing, timers |-> s.timers,
   operations |-> s.saveQueue]

\* persistentStorage.js processSaveQueue, lines 85-87: the batch is taken,
\* the queue cleared and the scheduler returned to Idle before any write.
ProcessSaveQueue(s) ==
  [saveQueue |-> <<>>, isProcessing |-> FALSE, timers |-> s.timers,
   operations |-> s.saveQueue]

\* A flush that queues a failed operation again.
CatchAndRetry(s, op, outcome) ==
  IF outcome = "ok" THEN s ELSE QueueSave(s, op.type, op.data)

\* persistentStorage.js:90-94: the try/catch around each saveToFile of a
\* flush: a failure is logged and the scheduler is left as it is.
CatchAndLog(s, op, outcome) == s

\* A flush that gives up its batch at the first failed write.
RemainingAbort(rest, outcome) == IF outcome = "ok" THEN rest ELSE <<>>

\* persistentStorage.js:89-95: the for loop goes on to the next operation
\* after a write, failed or not.
Remaining(rest, outcome) == rest

\* A saveImmediately that also takes the name out of the dirty set.
SaveImmediatelyDequeue(s, d, type, doc, outcome) ==
  [sched |-> [s EXCEPT !.saveQueue = SelectSeq(@, LAMBDA e : e.type # type)],
   disk |-> SaveToFile(d, type, doc, outcome)]

\* persistentStorage.js:138-140 saveImmediately: saveToFile called directly.
\* s is the scheduler and d the disk before the call.
SaveImmediately(s, d, type, doc, outcome) ==
  [sched |-> s, disk |-> SaveToFile(d, type, doc, outcome)]

Sched == [saveQueue |-> saveQueue, isProcessing |-> isProcessing, timers |-> timers]

SetSched(s) ==
  /\ saveQueue' = s.saveQueue
  /\ isProcessing' = s.isProcessing
  /\ timers' = s.timers

\* serverWml.js saveContacts / saveChats / saveMessages / saveMeta / saveAll
SaveContacts(s) == QueueSave(s, "contacts", LiveRef)
SaveChats(s) == QueueSave(s, "chats", LiveRef)
SaveMessages(s) == QueueSave(s, "messages", LiveRef)
SaveMeta(s, contacts, chats, messages, synced, attempts) ==
  QueueSave(s, "meta", Value(MetaSnapshot(contacts, chats, messages, synced, attempts)))
\* A saveAll that does not call saveMeta.
SaveAllNoMeta(s, contacts, chats, messages, synced, attempts) ==
  SaveMessages(SaveChats(SaveContacts(s)))
SaveAll(s, contacts, chats, messages, synced, attempts) ==
  SaveMeta(SaveMessages(SaveChats(SaveContacts(s))),
           contacts, chats, messages, synced, attempts)

\* ---------------------------------------------------------------- Store
\* A message as this layer reads it: msg.key.id, msg.key.remoteJid and the
\* media key of its content ("none" for a text message).
Message(i, j) == [id |-> i, remoteJid |-> j, media |-> "none"]
\* A media message (msg.message.imageMessage): its media key is a byte array.
MediaMessage(i, j) == [id |-> i, remoteJid |-> j, media |-> "bytes"]

\* Map.prototype.set / delete on a store
Put(m, k, v) == [x \in DOMAIN m \cup {k} |-> IF x = k THEN v ELSE m[x]]
Without(m, ks) == [x \in DOMAIN m \ ks |-> m[x]]

\* A thread creation that does not look for an existing thread.
EnsureThreadReset(chats, j) == Put(chats, j, <<>>)

\* serverWml.js:2779-2781 / 2805-2807 / 2852-2854: create the thread if unknown
EnsureThread(chats, j) == IF j \in DOMAIN chats THEN chats ELSE Put(chats, j, <<>>)

\* A cap that cuts a thread over the limit down to the limit.
CapThreadToLimit(thread) ==
  IF Len(thread) > LiveCap
  THEN SubSeq(thread, Len(thread) - LiveCap + 1, Len(thread))
  ELSE thread

\* A cap that drops the newest entry.
CapThreadDropNewest(thread) ==
  IF Len(thread) > LiveCap THEN SubSeq(thread, 1, LiveCap) ELSE thread

\* serverWml.js:2813-2815, the ingestion-time cap of messages.upsert
CapThread(thread) == IF Len(thread) > LiveCap THEN Tail(thread) ELSE thread

\* serverWml.js:2801-2816: one iteration of the messages.upsert loop.
\* st = [chats, messages, dropped]; dropped collects the ids shift() removed.
UpsertOne(st, msg) ==
  IF msg.id # NoId
  THEN LET chats0 == EnsureThread(st.chats, msg.remoteJid)
           pushed == Append(chats0[msg.remoteJid], msg)
           capped == CapThread(pushed)
       IN [chats |-> [chats0 EXCEPT ![msg.remoteJid] = capped],
           messages |-> Put(st.messages, msg.id, msg),
           dropped |-> IF Len(capped) < Len(pushed)
                       THEN st.dropped \cup {pushed[1].id} ELSE st.dropped]
  ELSE st

\* serverWml.js:2776-2786: one iteration of the messaging-history.set message loop
HistoryOne(st, msg) ==
  IF msg.id # NoId
  THEN LET chats0 == EnsureThread(st.chats, msg.remoteJid)
       IN [chats |-> [chats0 EXCEPT ![msg.remoteJid] = Append(@, msg)],
           messages |-> Put(st.messages, msg.id, msg),
           dropped |-> st.dropped]
  ELSE st

RECURSIVE UpsertAll(_, _)
UpsertAll(st, batch) ==
  IF batch = <<>> THEN st ELSE UpsertAll(UpsertOne(st, Head(batch)), Tail(batch))

RECURSIVE HistoryAll(_, _)
HistoryAll(st, batch) ==
  IF batch = <<>> THEN st ELSE HistoryAll(HistoryOne(st, Head(batch)), Tail(batch))

RECURSIVE EnsureThreads(_, _)
EnsureThreads(chats, js) ==
  IF js = <<>> THEN chats ELSE EnsureThreads(EnsureThread(chats, Head(js)), Tail(js))

\* A contact loop that inserts and never replaces.
RECURSIVE PutContactsKeepFirst(_, _)
PutContactsKeepFirst(contacts, cs) ==
  IF cs = <<>> THEN contacts
  ELSE PutContactsKeepFirst(IF Head(cs).id \in DOMAIN contacts THEN contacts
                            ELSE Put(contacts, Head(cs).id, Head(cs)), Tail(cs))

\* serverWml.js:2837-2839 / 2771-2773: contactStore.set(c.id, c) for every contact
RECURSIVE PutContacts(_, _)
PutContacts(contacts, cs) ==
  IF cs = <<>> THEN contacts
  ELSE PutContacts(Put(contacts, Head(cs).id, Head(cs)), Tail(cs))

\* persistentStorage.js cleanupOldMessages, lines 146-159
OldMessages(thread, max) ==
  IF Len(thread) > max THEN SubSeq(thread, 1, Len(thread) - max) ELSE <<>>
\* A sweep that keeps the oldest entries of a thread instead of the newest.
KeptMessagesOldest(thread, max) ==
  IF Len(thread) > max THEN SubSeq(thread, 1, max) ELSE thread
\* A sweep that keeps the newest entries, newest first.
KeptMessagesReversed(thread, max) ==
  LET n == Min(Len(thread), max)
  IN [k \in 1..n |-> thread[Len(thread) - k + 1]]
\* persistentStorage.js:147-149: what splice(0, length - max) leaves of a thread
KeptMessages(thread, max) ==
  IF Len(thread) > max THEN SubSeq(thread, Len(thread) - max + 1, Len(thread)) ELSE thread
RemovedIds(chats, max) ==
  {m.id : m \in UNION {{OldMessages(chats[j], max)[k] :
                          k \in 1..Len(OldMessages(chats[j], max))} : j \in DOMAIN chats}}
    \ {NoId}
CleanedIds(messages, chats, max) == RemovedIds(chats, max) \cap DOMAIN messages
CleanupChats(chats, max) == [j \in DOMAIN chats |-> KeptMessages(chats[j], max)]
\* A sweep that shortens the threads and leaves the index as it is.
CleanupMessagesKeepIndex(messages, chats, max) == messages
CleanupMessages(messages, chats, max) == Without(messages, CleanedIds(messages, chats, max))
\* A sweep that signals whether or not it cleaned something.
CleanupSignalsAlways(s, cleaned) == SaveChats(SaveMessages(s))
\* lines 161-165: the two signals of a sweep that cleaned something
CleanupSignals(s, cleaned) ==
  IF cleaned > 0 THEN SaveChats(SaveMessages(s)) ELSE s

ThreadIds(chats) ==
  {chats[j][k].id : <<j, k>> \in UNION {{<<j, k>> : k \in 1..Len(chats[j])} : j \in DOMAIN chats}}

\* ------------------------------------------------------------ observers
\* The live record a name stands for, serialized now.
LiveDoc(type) ==
  IF type = "meta"
  THEN MetaSnapshot(contactStore, chatStore, messageStore, isFullySynced, syncAttempts)
  ELSE Serialize(type, LiveRef, contactStore, chatStore, messageStore)

\* A handler signalled the names sig (one queueSave each).
ObserveSignals(sig) ==
  LET opens == sig # {} /\ ~isProcessing
  IN /\ age' = IF opens THEN 0 ELSE age
     /\ signals' = [n \in Names |->
                      LET base == IF opens THEN 0 ELSE signals[n]
                      IN IF n \in sig THEN Min(base + 1, 2) ELSE base]
     /\ owed' = owed \cup sig
     /\ late' = [n \in Names |->
                   IF n \in sig /\ flushing # <<>> THEN "queued" ELSE late[n]]
     /\ lastSignals' = sig
     /\ flushed' = <<>>
     /\ UNCHANGED <<writes, lastWrite, lastError>>

\* A scheduled flush handed the operation op to saveToFile; fired tells
\* whether this is the first write of a timer's flush.
ObserveWrite(op, doc, outcome, fired) ==
  LET late0 == IF fired
               THEN [n \in Names |-> CASE late[n] = "queued" -> "taken"
                                       [] late[n] = "done" -> "no"
                                       [] OTHER -> late[n]]
               ELSE late
      writes0 == IF fired THEN [n \in Names |-> 0] ELSE writes
  IN /\ writes' = [writes0 EXCEPT ![op.type] = Min(@ + 1, 2)]
     /\ late' = [late0 EXCEPT ![op.type] = IF @ = "taken" THEN "done" ELSE @]
     /\ owed' = owed \ {op.type}
     /\ lastWrite' = [type |-> op.type, doc |-> <<doc>>, live |-> <<LiveDoc(op.type)>>]
     /\ lastSignals' = {}
     /\ lastError' = IF outcome \in {"ok"} \cup CrashOutcomes THEN "none" ELSE "logged"
     /\ flushed' = <<>>
     /\ UNCHANGED <<age, signals>>

\* ----------------------------------------------------------------- Init
\* The state after construction with an empty data directory: loadAllData
\* finds no file and returns empty Maps and the default metadata.
\* No loadChatHistory call has been made.
NoCall == [status |-> "idle", hasSock |-> FALSE, replies |-> <<>>, outcome |-> "none",
           result |-> <<>>, saved |-> <<>>, fetches |-> 0]

Init ==
  /\ contactStore = EmptyMap
  /\ chatStore = EmptyMap
  /\ messageStore = EmptyMap
  /\ isFullySynced = FALSE
  /\ syncAttempts = 0
  /\ saveQueue = <<>>
  /\ isProcessing = FALSE
  /\ timers = <<>>
  /\ flushing = <<>>
  /\ files = [n \in Names |-> Absent]
  /\ tmpFiles = [n \in Names |-> Absent]
  /\ backups = <<>>
  /\ paging = NoCall
  /\ alive = TRUE
  /\ phase = "running"
  /\ saved = 0
  /\ sock = "none"
  /\ exitCode = NoExit
  /\ connectionState = "disconnected"
  /\ syncFetching = 0
  /\ syncSettling = 0
  /\ syncRetry = 0
  /\ reconnects = <<>>
  /\ age = 0
  /\ signals = [n \in Names |-> 0]
  /\ writes = [n \in Names |-> 0]
  /\ late = [n \in Names |-> "no"]
  /\ owed = {}
  /\ lastWrite = [type |-> "none", doc |-> <<>>, live |-> <<>>]
  /\ trimmed = {}
  /\ lastOp = "init"
  /\ lastSignals = {}
  /\ lastError = "none"
  /\ flushed = <<>>

\* -------------------------------------------------------- event handlers
\* serverWml.js:2797-2832  sock.ev.on("messages.upsert") for messages that
\* are no "ping" (the handler then runs without awaiting anything).
MessagesUpsert(batch) ==
  /\ alive
  /\ LET st == UpsertAll([chats |-> chatStore, messages |-> messageStore,
                          dropped |-> {}], batch)
         counted == Len(batch) > 0
     IN /\ chatStore' = st.chats
        /\ messageStore' = st.messages
        /\ SetSched(IF counted THEN SaveChats(SaveMessages(Sched)) ELSE Sched)
        /\ ObserveSignals(IF counted THEN {"messages", "chats"} ELSE {})
        /\ trimmed' = (trimmed \cup st.dropped) \ ThreadIds(st.chats)
  /\ lastOp' = "upsert"
  /\ UNCHANGED <<contactStore, isFullySynced, syncAttempts, flushing, diskVars, alive,
                 lifeVars>>

\* serverWml.js:2762-2794  sock.ev.on("messaging-history.set")
HistorySet(chats, contacts, messages, isLatest) ==
  /\ alive
  /\ LET contacts1 == PutContacts(contactStore, contacts)
         st == HistoryAll([chats |-> EnsureThreads(chatStore, chats),
                           messages |-> messageStore, dropped |-> {}], messages)
     IN /\ \A j \in DOMAIN st.chats : Len(st.chats[j]) <= MaxThreadLen
        /\ contactStore' = contacts1
        /\ chatStore' = st.chats
        /\ messageStore' = st.messages
        /\ isFullySynced' = (isLatest \/ isFullySynced)
        /\ SetSched(IF isLatest
                    THEN SaveAll(Sched, contacts1, st.chats, st.messages, TRUE, syncAttempts)
                    ELSE Sched)
        /\ ObserveSignals(IF isLatest THEN Names ELSE {})
        /\ trimmed' = trimmed \ ThreadIds(st.chats)
  /\ lastOp' = "history"
  /\ UNCHANGED <<syncAttempts, flushing, diskVars, alive, lifeVars>>

\* serverWml.js:2835-2841  sock.ev.on("contacts.set")
ContactsSet(contacts) ==
  /\ alive
  /\ contactStore' = PutContacts(contactStore, contacts)
  /\ SetSched(SaveContacts(Sched))
  /\ ObserveSignals({"contacts"})
  /\ lastOp' = "contacts.set"
  /\ UNCHANGED <<chatStore, messageStore, isFullySynced, syncAttempts, flushing,
                 diskVars, alive, lifeVars, trimmed>>

\* serverWml.js:2845  if (c.id): the contacts of an update that have an id
WithId(contacts) == SelectSeq(contacts, LAMBDA c : c.id # NoJid)

\* serverWml.js:2843-2847  sock.ev.on("contacts.update"): every contact
\* with an id replaces the stored one; nothing is queued.
ContactsUpdate(contacts) ==
  /\ alive
  /\ contactStore' = PutContacts(contactStore, WithId(contacts))
  /\ lastOp' = "contacts.update"
  /\ lastSignals' = {}
  /\ UNCHANGED <<chatStore, messageStore, isFullySynced, syncAttempts, schedVars,
                 diskVars, alive, lifeVars, age, signals, writes, late, owed, lastWrite,
                 trimmed, lastError, flushed>>

\* serverWml.js:2849-2864  sock.ev.on("chats.set") and sock.ev.on("chats.update")
ChatsSet(chats) ==
  /\ alive
  /\ chatStore' = EnsureThreads(chatStore, chats)
  /\ lastOp' = "chats.set"
  /\ lastSignals' = {}
  /\ UNCHANGED <<contactStore, messageStore, isFullySynced, syncAttempts, schedVars,
                 diskVars, alive, lifeVars, age, signals, writes, late, owed, lastWrite,
                 trimmed, lastError, flushed>>

\* The clearing of the logout paths as it would be with a saveAll() after it.
ClearAllAndSave ==
  /\ contactStore' = EmptyMap
  /\ chatStore' = EmptyMap
  /\ messageStore' = EmptyMap
  /\ isFullySynced' = FALSE
  /\ syncAttempts' = 0
  /\ trimmed' = {}
  /\ SetSched(SaveAll(Sched, EmptyMap, EmptyMap, EmptyMap, FALSE, 0))
  /\ UNCHANGED <<flushing, age, signals>>

\* serverWml.js:2744-2748, 3384-3388, 4987-4991: the clearing every logout
\* path runs.
ClearAll ==
  /\ contactStore' = EmptyMap
  /\ chatStore' = EmptyMap
  /\ messageStore' = EmptyMap
  /\ isFullySynced' = FALSE
  /\ syncAttempts' = 0
  /\ trimmed' = {}
  /\ UNCHANGED <<schedVars, age, signals>>

\* serverWml.js:2724-2749  connection.update, close with reason loggedOut
LoggedOut ==
  /\ alive
  /\ connectionState' = "close"
  /\ ClearAll
  /\ lastOp' = "logout"
  /\ lastSignals' = {}
  /\ UNCHANGED <<diskVars, alive, phase, saved, sock, exitCode, syncFetching, syncSettling,
                 syncRetry, reconnects, writes, late, owed, lastWrite, lastError,
                 flushed>>

\* serverWml.js:3376-3398 (/api/logout) and 4976-5004
\* (/wml/logout.confirm.wml): sock.logout() is awaited if there is a socket,
\* then the stores are cleared; a rejected sock.logout() runs the catch, which
\* answers with the error and clears nothing.  The WML route also sets
\* connectionState.
HttpLogout(route, outcome) ==
  /\ alive
  /\ outcome = "error" => sock # "none"
  /\ IF outcome = "ok"
     THEN /\ ClearAll
          /\ connectionState' = IF route = "wml" THEN "disconnected" ELSE connectionState
          /\ lastOp' = "logout"
     ELSE /\ UNCHANGED <<storeVars, schedVars, connectionState, age, signals, trimmed>>
          /\ lastOp' = "logout failed"
  /\ lastSignals' = {}
  /\ UNCHANGED <<diskVars, alive, phase, saved, sock, exitCode, syncFetching, syncSettling,
                 syncRetry, reconnects, writes, late, owed, lastWrite, lastError,
                 flushed>>

\* serverWml.js:2724-2759  connection.update with connection "connecting"
\* or "open".  The timer armed on "open" runs enhancedInitialSync of
\* loadChatUtils.js, whose first statement reads an identifier that module
\* never declares: the call rejects before it changes anything.
ConnectionUpdate(connection) ==
  /\ alive
  /\ sock = "open"
  /\ connectionState' = connection
  /\ IF connection = "open"
     THEN isFullySynced' = FALSE /\ syncAttempts' = 0
     ELSE UNCHANGED <<isFullySynced, syncAttempts>>
  /\ lastOp' = "connection.update"
  /\ lastSignals' = {}
  /\ UNCHANGED <<contactStore, chatStore, messageStore, schedVars, diskVars, alive, phase,
                 saved, sock, exitCode, syncFetching, syncSettling, syncRetry, reconnects, age, signals,
                 writes, late, owed, lastWrite, trimmed, lastError, flushed>>

\* ------------------------------------------------------ performInitialSync
\* serverWml.js:2621-2641: the call up to its first await.  Without a socket
\* or an open connection it returns; otherwise it counts the attempt and
\* goes on to await groupFetchAllParticipating (after the wait for contacts
\* when there are none, during which it changes nothing).
SyncBegin ==
  IF sock = "none" \/ connectionState # "open"
  THEN UNCHANGED <<syncAttempts, syncFetching>>
  ELSE /\ syncAttempts' = syncAttempts + 1
       /\ syncFetching' = syncFetching + 1

\* A verdict that looks at the chats only.
SyncVerdictChatsOnly(chats) ==
  IF DOMAIN chats # {}
  THEN isFullySynced' = TRUE /\ UNCHANGED syncRetry
  ELSE syncRetry' = syncRetry + 1 /\ UNCHANGED isFullySynced

\* serverWml.js:2667-2686: the counts are taken; with contacts and chats the
\* sync is complete, without them performInitialSync is armed again.
SyncVerdict(chats) ==
  IF DOMAIN contactStore # {} /\ DOMAIN chats # {}
  THEN isFullySynced' = TRUE /\ UNCHANGED syncRetry
  ELSE syncRetry' = syncRetry + 1 /\ UNCHANGED isFullySynced

\* serverWml.js:5010-5028  /wml/sync.full.wml calls performInitialSync
SyncFull ==
  /\ alive
  /\ sock # "none"
  /\ syncAttempts < MaxSyncAttempts
  /\ syncFetching + syncSettling + syncRetry < MaxSyncRuns
  /\ SyncBegin
  /\ lastOp' = "sync"
  /\ lastSignals' = {}
  /\ UNCHANGED <<contactStore, chatStore, messageStore, isFullySynced, schedVars, diskVars,
                 alive, phase, saved, sock, exitCode, connectionState, syncSettling,
                 syncRetry, reconnects, age, signals, writes, late, owed, lastWrite,
                 trimmed, lastError, flushed>>

\* serverWml.js:2684: an armed retry fires and calls performInitialSync
SyncRetryFire ==
  /\ alive
  /\ syncRetry > 0
  /\ syncAttempts < MaxSyncAttempts
  /\ syncRetry' = syncRetry - 1
  /\ SyncBegin
  /\ lastOp' = "sync"
  /\ lastSignals' = {}
  /\ UNCHANGED <<contactStore, chatStore, messageStore, isFullySynced, schedVars, diskVars,
                 alive, phase, saved, sock, exitCode, connectionState, syncSettling,
                 reconnects, age, signals, writes, late, owed, lastWrite, trimmed,
                 lastError, flushed>>

\* serverWml.js:2648-2686: groupFetchAllParticipating has settled.  Its
\* groups get their threads; with no thread at all the call waits once more,
\* otherwise (and after a rejected fetch) it goes on to the verdict.
SyncGroups(groups, outcome) ==
  /\ alive
  /\ syncFetching > 0
  /\ syncFetching' = syncFetching - 1
  /\ LET chats == IF outcome = "ok" THEN EnsureThreads(chatStore, groups) ELSE chatStore
     IN /\ chatStore' = chats
        /\ IF outcome = "ok" /\ DOMAIN chats = {}
           THEN /\ syncSettling' = syncSettling + 1
                /\ UNCHANGED <<isFullySynced, syncRetry>>
           ELSE /\ SyncVerdict(chats)
                /\ UNCHANGED syncSettling
  /\ lastOp' = "sync"
  /\ lastSignals' = {}
  /\ UNCHANGED <<contactStore, messageStore, syncAttempts, schedVars, diskVars, alive,
                 phase, saved, sock, exitCode, connectionState, reconnects, age, signals,
                 writes, late, owed, lastWrite, trimmed, lastError, flushed>>

\* serverWml.js:2659-2686: the wait for chats is over
SyncSettle ==
  /\ alive
  /\ syncSettling > 0
  /\ syncSettling' = syncSettling - 1
  /\ SyncVerdict(chatStore)
  /\ lastOp' = "sync"
  /\ lastSignals' = {}
  /\ UNCHANGED <<contactStore, chatStore, messageStore, syncAttempts, schedVars, diskVars,
                 alive, phase, saved, sock, exitCode, connectionState, syncFetching,
                 reconnects, age, signals, writes, late, owed, lastWrite, trimmed,
                 lastError, flushed>>

\* serverWml.js:2942-2945  the ten-minute interval: saveAll()
PeriodicSave ==
  /\ alive
  /\ SetSched(SaveAll(Sched, contactStore, chatStore, messageStore,
                      isFullySynced, syncAttempts))
  /\ ObserveSignals(Names)
  /\ lastOp' = "saveAll"
  /\ UNCHANGED <<storeVars, flushing, diskVars, alive, lifeVars, trimmed>>

\* serverWml.js:2938-2940  the hourly interval:
\* storage.cleanupOldMessages(messageStore, chatStore, 100)
PeriodicCleanup ==
  /\ alive
  /\ LET cleaned == Cardinality(CleanedIds(messageStore, chatStore, MaxMessagesPerChat))
     IN /\ chatStore' = CleanupChats(chatStore, MaxMessagesPerChat)
        /\ messageStore' = CleanupMessages(messageStore, chatStore, MaxMessagesPerChat)
        /\ SetSched(CleanupSignals(Sched, cleaned))
        /\ ObserveSignals(IF cleaned > 0 THEN {"messages", "chats"} ELSE {})
        /\ trimmed' = (trimmed \cup RemovedIds(chatStore, MaxMessagesPerChat))
                        \ ThreadIds(chatStore')
  /\ lastOp' = "cleanup"
  /\ UNCHANGED <<contactStore, isFullySynced, syncAttempts, flushing, diskVars, alive,
                 lifeVars>>

\* ------------------------------------------------------- timers and flush
\* The process dies: what it held in memory is gone.
MemoryLost ==
  /\ alive' = FALSE
  /\ contactStore' = EmptyMap
  /\ chatStore' = EmptyMap
  /\ messageStore' = EmptyMap
  /\ isFullySynced' = FALSE
  /\ syncAttempts' = 0
  /\ saveQueue' = <<>>
  /\ isProcessing' = FALSE
  /\ timers' = <<>>
  /\ flushing' = <<>>

RemoveAt(q, i) == [k \in 1..(Len(q) - 1) |-> IF k < i THEN q[k] ELSE q[k + 1]]

\* One second passes.  A due timer runs before more time passes, and the
\* awaits of a running flush are resumed before any timer.
Tick ==
  /\ alive
  /\ timers # <<>>
  /\ flushing = <<>>
  /\ \A i \in 1..Len(timers) : timers[i] > 0
  /\ timers' = [i \in 1..Len(timers) |-> timers[i] - 1]
  /\ age' = Min(age + 1, Debounce + 1)
  /\ lastOp' = "tick"
  /\ lastSignals' = {}
  /\ UNCHANGED <<storeVars, saveQueue, isProcessing, flushing, diskVars, alive, lifeVars,
                 signals, writes, late, owed, lastWrite, trimmed, lastError, flushed>>

\* persistentStorage.js:89-95: one iteration of the loop of processSaveQueue:
\* saveToFile on the operation, an error caught and logged.
WriteOperation(s, op, rest, outcome, fired) ==
  LET doc == Serialize(op.type, op.data, contactStore, chatStore, messageStore)
      d == SaveToFile(Disk, op.type, doc, outcome)
  IN /\ files' = d.files
     /\ tmpFiles' = d.tmpFiles
     /\ UNCHANGED <<backups, paging>>
     /\ ObserveWrite(op, doc, outcome, fired)
     /\ IF outcome \in CrashOutcomes
        THEN MemoryLost
        ELSE /\ SetSched(CatchAndLog(s, op, outcome))
             /\ flushing' = Remaining(rest, outcome)
             /\ UNCHANGED <<storeVars, alive>>

\* persistentStorage.js:79 and 84-91: a debounce timer fires and runs
\* processSaveQueue up to its first await: the batch is taken and its first
\* operation written.
TimerFire(i, outcome) ==
  /\ alive
  /\ flushing = <<>>
  /\ i \in 1..Len(timers)
  /\ timers[i] = 0
  /\ LET p == ProcessSaveQueue([Sched EXCEPT !.timers = RemoveAt(timers, i)])
     IN IF p.operations = <<>>
        THEN /\ SetSched(p)
             /\ flushing' = <<>>
             /\ writes' = [n \in Names |-> 0]
             /\ lastSignals' = {}
             /\ UNCHANGED <<storeVars, diskVars, alive, age, signals, late, owed, lastWrite,
                            lastError, flushed>>
        ELSE WriteOperation(p, Head(p.operations), Tail(p.operations), outcome, TRUE)
  /\ lastOp' = "fire"
  /\ UNCHANGED <<lifeVars, trimmed>>

\* persistentStorage.js:89-95: processSaveQueue resumes after an await and
\* writes the next operation of its batch.
FlushStep(outcome) ==
  /\ alive
  /\ flushing # <<>>
  /\ WriteOperation(Sched, Head(flushing), Tail(flushing), outcome, FALSE)
  /\ lastOp' = "flush"
  /\ UNCHANGED <<lifeVars, trimmed>>

\* The process is killed (SIGKILL, power loss, process.exit in another path)
\* between two steps; no handler runs.
Crash ==
  /\ alive
  /\ MemoryLost
  /\ lastOp' = "crash"
  /\ lastSignals' = {}
  /\ UNCHANGED <<diskVars, lifeVars, age, signals, writes, late, owed, lastWrite, trimmed,
                 lastError, flushed>>

\* ------------------------------------------------------ gracefulShutdown
\* serverWml.js:2885-2892: the four immediate saves, in this order
ShutdownOrder == <<"contacts", "chats", "messages", "meta">>

\* serverWml.js:2888-2892: the meta object of the shutdown flush
ShutdownMeta(synced, attempts) ==
  [isFullySynced |-> synced, syncAttempts |-> attempts, lastSync |-> "now"]

\* A shutdown that closes the connection once the first save is done.
ReadyToCloseEarly(n) == n >= 1

\* serverWml.js:2885-2895: sock.end() comes after the four awaited saves.
ReadyToClose(n) == n = Len(ShutdownOrder)

\* A process.exit that clears the collections and leaves the process, its
\* timers and its dirty set running.
ExitKeepsRunning(code) ==
  /\ alive' = TRUE
  /\ contactStore' = EmptyMap
  /\ chatStore' = EmptyMap
  /\ messageStore' = EmptyMap
  /\ UNCHANGED <<isFullySynced, syncAttempts, schedVars>>
  /\ phase' = "exited"
  /\ exitCode' = code

\* process.exit(code)
Exit(code) ==
  /\ MemoryLost
  /\ phase' = "exited"
  /\ exitCode' = code

\* The in-memory state a shutdown flush writes.
MemoryState ==
  [contacts |-> contactStore, chats |-> chatStore, messages |-> messageStore,
   isFullySynced |-> isFullySynced, syncAttempts |-> syncAttempts]

\* serverWml.js:2885-2892 and 2909-2912: one awaited saveImmediately of
\* gracefulShutdown; a rejected save is thrown into the catch, which logs
\* the error and calls process.exit(1).
ImmediateSave(outcome) ==
  LET type == ShutdownOrder[saved + 1]
      data == IF type = "meta" THEN Value(ShutdownMeta(isFullySynced, syncAttempts))
              ELSE LiveRef
      doc == Serialize(type, data, contactStore, chatStore, messageStore)
      r == SaveImmediately(Sched, Disk, type, doc, outcome)
  IN /\ files' = r.disk.files
     /\ tmpFiles' = r.disk.tmpFiles
     /\ UNCHANGED <<backups, paging>>
     /\ IF outcome = "ok"
        THEN /\ SetSched(r.sched)
             /\ saved' = saved + 1
             /\ phase' = "saving"
             /\ lastError' = "none"
             /\ flushed' = IF saved + 1 = Len(ShutdownOrder) THEN <<MemoryState>> ELSE <<>>
             /\ UNCHANGED <<storeVars, flushing, alive, exitCode>>
        ELSE /\ Exit(1)
             /\ lastError' = "surfaced"
             /\ flushed' = <<>>
             /\ UNCHANGED saved
     /\ lastOp' = "saveImmediately"
     /\ lastSignals' = {}
     /\ UNCHANGED <<sock, connVars, age, signals, writes, late, owed, lastWrite, trimmed>>

\* serverWml.js:2878-2885: a termination signal starts gracefulShutdown,
\* which runs up to its first await: the save of contacts.
GracefulShutdown(outcome) ==
  /\ alive
  /\ phase = "running"
  /\ flushing = <<>>
  /\ ImmediateSave(outcome)

\* serverWml.js:2886-2892: gracefulShutdown resumes and starts its next save.
ShutdownSave(outcome) ==
  /\ alive
  /\ phase = "saving"
  /\ saved \in 1..(Len(ShutdownOrder) - 1)
  /\ ImmediateSave(outcome)

\* serverWml.js:2893-2911: after the saves, sock.end() is called if there is
\* a connection; without one the collections are cleared and the process
\* exits with 0; a throw of sock.end() runs the catch.
ShutdownClose(outcome) ==
  /\ alive
  /\ phase = "saving"
  /\ ReadyToClose(saved)
  /\ IF sock = "open"
     THEN /\ sock' = "ended"
          /\ IF outcome = "ok"
             THEN /\ phase' = "closing"
                  /\ UNCHANGED <<storeVars, schedVars, alive, exitCode>>
             ELSE Exit(1)
     ELSE /\ outcome = "ok"
          /\ Exit(0)
          /\ UNCHANGED sock
  /\ lastOp' = "sock.end"
  /\ lastSignals' = {}
  /\ UNCHANGED <<diskVars, saved, connVars, age, signals, writes, late, owed, lastWrite,
                 trimmed, lastError, flushed>>

\* serverWml.js:2898-2908: sock.end() has resolved: the collections are
\* cleared and the process exits with 0.
ShutdownExit ==
  /\ alive
  /\ phase = "closing"
  /\ Exit(0)
  /\ lastOp' = "exit"
  /\ lastSignals' = {}
  /\ UNCHANGED <<diskVars, saved, sock, connVars, age, signals, writes, late, owed,
                 lastWrite, trimmed, lastError, flushed>>

\* serverWml.js:2885-2892: the disk after the first n immediate saves of a
\* gracefulShutdown whose save number failAt (0: none) ends with outcome;
\* the saves behind a failed one do not run.
RECURSIVE ShutdownSaves(_, _, _, _)
ShutdownSaves(d, n, failAt, outcome) ==
  IF n = 0 THEN d
  ELSE IF failAt # 0 /\ n > failAt THEN ShutdownSaves(d, failAt, failAt, outcome)
  ELSE LET type == ShutdownOrder[n]
           data == IF type = "meta" THEN Value(ShutdownMeta(isFullySynced, syncAttempts))
                   ELSE LiveRef
           doc == Serialize(type, data, contactStore, chatStore, messageStore)
       IN SaveImmediately(Sched, ShutdownSaves(d, n - 1, failAt, outcome), type, doc,
                          IF n = failAt THEN outcome ELSE "ok").disk

\* serverWml.js:2916-2924 and 2878-2912: a second signal, or an uncaught
\* exception, calls gracefulShutdown again while the first call awaits
\* sock.end().  The awaits of the four saves resume before any other
\* callback, so the call runs to its own await of sock.end(); a failed save
\* (failAt in 1..4) or a throw of sock.end() (failAt = 5) runs the catch.
GracefulShutdownAgain(failAt, outcome) ==
  /\ alive
  /\ phase = "closing"
  /\ flushing = <<>>
  /\ LET d == ShutdownSaves(Disk, Len(ShutdownOrder), failAt, outcome)
     IN /\ files' = d.files
        /\ tmpFiles' = d.tmpFiles
  /\ UNCHANGED <<backups, paging>>
  /\ IF failAt = 0
     THEN /\ lastError' = "none"
          /\ flushed' = <<MemoryState>>
          /\ UNCHANGED <<storeVars, schedVars, alive, phase, exitCode>>
     ELSE /\ Exit(1)
          /\ lastError' = "surfaced"
          /\ flushed' = <<>>
  /\ lastOp' = "gracefulShutdown"
  /\ lastSignals' = {}
  /\ UNCHANGED <<saved, sock, connVars, age, signals, writes, late, owed, lastWrite,
                 trimmed>>

\* serverWml.js:2705: connectWithBetterSync creates the socket.
Connect ==
  /\ alive
  /\ phase = "running"
  /\ sock = "none"
  /\ sock' = "open"
  /\ lastOp' = "connect"
  /\ lastSignals' = {}
  /\ UNCHANGED <<storeVars, schedVars, diskVars, alive, phase, saved, exitCode, connVars,
                 age, signals, writes, late, owed, lastWrite, trimmed, lastError, flushed>>

\* serverWml.js:2738: Math.min(5000 * Math.pow(2, syncAttempts), 30000), in seconds
Backoff(attempts) == Min(5 * 2 ^ attempts, 30)

\* A close handler that arms the reconnect twice.
RearmTwice(q, attempts) == Append(Append(q, Backoff(attempts)), Backoff(attempts))

\* serverWml.js:2738-2739: setTimeout(connectWithBetterSync, delay)
Rearm(q, attempts) == Append(q, Backoff(attempts))

\* serverWml.js:2724-2739  connection.update, close with a reason other than
\* loggedOut: the state is recorded and the reconnect is armed.
ConnectionClose ==
  /\ alive
  /\ sock = "open"
  /\ Len(reconnects) < MaxReconnects
  /\ connectionState' = "close"
  /\ reconnects' = Rearm(reconnects, syncAttempts)
  /\ lastOp' = "connection.close"
  /\ lastSignals' = {}
  /\ UNCHANGED <<storeVars, schedVars, diskVars, alive, phase, saved, sock, exitCode,
                 syncFetching, syncSettling, syncRetry, age, signals, writes, late, owed,
                 lastWrite, trimmed, lastError, flushed>>

\* serverWml.js:2699-2705 and 2866-2869: an armed reconnect fires and runs
\* connectWithBetterSync, which creates a new socket; when it throws before
\* that, the catch arms it again in ten seconds.
ReconnectFire(i, outcome) ==
  /\ alive
  /\ i \in 1..Len(reconnects)
  /\ IF outcome = "ok"
     THEN /\ sock' = "open"
          /\ reconnects' = RemoveAt(reconnects, i)
     ELSE /\ reconnects' = Append(RemoveAt(reconnects, i), 10)
          /\ UNCHANGED sock
  /\ lastOp' = "reconnect"
  /\ lastSignals' = {}
  /\ UNCHANGED <<storeVars, schedVars, diskVars, alive, phase, saved, exitCode,
                 connectionState, syncFetching, syncSettling, syncRetry, age, signals,
                 writes, late, owed, lastWrite, trimmed, lastError, flushed>>

\* serverWml.js:51-59 and 20: the process starts: the storage is constructed
\* and the stores are taken from loadAllData.
Start ==
  /\ ~alive
  /\ LET r == LoadAllData(files)
     IN /\ contactStore' = r.contacts
        /\ chatStore' = r.chats
        /\ messageStore' = r.messages
        /\ isFullySynced' = r.meta.isFullySynced
        /\ syncAttempts' = r.meta.syncAttempts
  /\ saveQueue' = <<>>
  /\ isProcessing' = FALSE
  /\ timers' = <<>>
  /\ flushing' = <<>>
  /\ alive' = TRUE
  /\ phase' = "running"
  /\ saved' = 0
  /\ sock' = "none"
  /\ exitCode' = NoExit
  /\ connectionState' = "disconnected"
  /\ syncFetching' = 0
  /\ syncSettling' = 0
  /\ syncRetry' = 0
  /\ reconnects' = <<>>
  /\ age' = 0
  /\ signals' = [n \in Names |-> 0]
  /\ writes' = [n \in Names |-> 0]
  /\ late' = [n \in Names |-> "no"]
  /\ owed' = {}
  /\ trimmed' = {}
  /\ lastOp' = "load"
  /\ lastSignals' = {}
  /\ lastError' = "none"
  /\ UNCHANGED <<diskVars, lastWrite, flushed>>

\* ------------------------------------------------------------ exportData
\* The export as it would be if taken from the collections in memory.
ExportedDataLive ==
  [contacts |-> contactStore, chats |-> [j \in DOMAIN chatStore |-> JsonThread(chatStore[j])],
   messages |-> [i \in DOMAIN messageStore |-> JsonMessage(messageStore[i])],
   meta |-> DefaultMeta]

\* persistentStorage.js:179  const data = this.loadAllData()
ExportedData == LoadAllData(files)

\* persistentStorage.js:181-187: the exported object (timestamp is "now")
ExportDoc(data) ==
  [timestamp |-> "now", contacts |-> Entries(data.contacts), chats |-> Entries(data.chats),
   messages |-> Entries(data.messages), meta |-> data.meta]

\* persistentStorage.js:169-192  exportData(): the backups directory is
\* created if missing, the four files are read with loadAllData and the
\* result is written to a file named after the current time.
ExportData ==
  /\ alive
  /\ Len(backups) < MaxBackups
  /\ backups' = Append(backups, ExportDoc(ExportedData))
  /\ lastOp' = "export"
  /\ lastSignals' = {}
  /\ UNCHANGED <<storeVars, schedVars, files, tmpFiles, paging, alive, lifeVars, age,
                 signals, writes, late, owed, lastWrite, trimmed, lastError, flushed>>

\* ------------------------------------- the data directory while stopped
\* What loadAllData can find at the next start besides what was written:
\* a file removed, a file damaged, a field taken out of meta.json.
Tamper(n, f) ==
  /\ ~alive
  /\ files' = [files EXCEPT ![n] = f]
  /\ lastOp' = "tamper"
  /\ lastSignals' = {}
  /\ flushed' = <<>>
  /\ UNCHANGED <<storeVars, schedVars, tmpFiles, backups, paging, alive, lifeVars, age,
                 signals, writes, late, owed, lastWrite, trimmed, lastError>>

RemoveFile(n) == files[n] # Absent /\ Tamper(n, Absent)

DamageFile(n) == files[n] # Absent /\ ~files[n].partial /\ Tamper(n, Corrupt)

EditMeta(field) ==
  /\ files["meta"] # Absent /\ ~files["meta"].partial
  /\ field \in DOMAIN files["meta"].doc[1]
  /\ Tamper("meta", Complete([g \in DOMAIN files["meta"].doc[1] \ {field} |->
                               files["meta"].doc[1][g]]))

\* ---------------------------------------------------------------- inputs
\* A message with a key and no id: counted by messages.upsert, not stored.
NoIdMessage == Message(NoId, "j1")
\* Message ids are globally unique, so every id has one owning thread: the
\* messages of the model belong to j1; j2 is a thread known from chat events.
Messages == {Message(i, "j1") : i \in MsgIds}

\* A message with an id and no msg.key.remoteJid.
NoThreadMessage == Message(2, NoJid)

Contact(j) == [id |-> j, name |-> "n"]
\* The update of a contact: the same id under a new name.
ContactUpdate(j) == [id |-> j, name |-> "m"]

\* ------------------------------------------------------- specifications
\* The scheduler under signals that leave the store alone: the periodic
\* saveAll (all four names) and an upsert of a message without id
\* (messages and chats).  Writes succeed or fail before touching the disk.
NextSched ==
  \/ MessagesUpsert(<<NoIdMessage>>)
  \/ PeriodicSave
  \/ Tick
  \/ \E i \in 1..Len(timers), o \in {"ok", "open_error"} : TimerFire(i, o)
  \/ \E o \in {"ok", "open_error"} : FlushStep(o)
  \/ Crash

SpecSched == Init /\ [][NextSched]_vars

\* The store under ingestion, sweeps and logout.
NextStore ==
  \/ \E m \in Messages : MessagesUpsert(<<m>>)
  \/ \E m \in Messages : HistorySet(<<>>, <<>>, <<m>>, FALSE)
  \/ \E j \in Jids : ChatsSet(<<j>>)
  \/ PeriodicCleanup
  \/ LoggedOut

SpecStore == Init /\ [][NextStore]_vars

\* The store when no message is delivered while the index still holds its id.
NextFresh ==
  \/ \E m \in Messages : m.id \notin DOMAIN messageStore /\ MessagesUpsert(<<m>>)
  \/ \E m \in Messages :
       m.id \notin DOMAIN messageStore /\ HistorySet(<<>>, <<>>, <<m>>, FALSE)
  \/ \E j \in Jids : ChatsSet(<<j>>)
  \/ PeriodicCleanup
  \/ LoggedOut

SpecFresh == Init /\ [][NextFresh]_vars

\* Timers fire when due and the awaits of a running flush are resumed.
FairSpecSched ==
  /\ SpecSched
  /\ WF_vars(Tick)
  /\ WF_vars(\E i \in 1..Len(timers), o \in {"ok", "open_error"} : TimerFire(i, o))
  /\ WF_vars(\E o \in {"ok", "open_error"} : FlushStep(o))

\* The writer under the outcomes that touch the disk, with a store that
\* changes between the flushes (handlers run between flushes, as timers do).
NextWrite ==
  \/ flushing = <<>> /\ MessagesUpsert(<<Message(1, "j1")>>)
  \/ flushing = <<>> /\ PeriodicSave
  \/ Tick
  \/ \E i \in 1..Len(timers), o \in WriteOutcomes \ {"open_error"} : TimerFire(i, o)
  \/ \E o \in WriteOutcomes \ {"open_error"} : FlushStep(o)
  \/ Crash

SpecWrite == Init /\ [][NextWrite]_vars

\* A run of the process from start to gracefulShutdown and the next start:
\* the socket is created, a message arrives over it (text or media), the
\* scheduler flushes, the immediate saves succeed or fail.
FlushOutcomes == {"ok", "write_error"}
ImmediateOutcomes == {"ok", "write_error", "rename_error"}

NextShutdown ==
  \/ Connect
  \/ \E m \in {Message(1, "j1"), MediaMessage(1, "j1")} :
       /\ phase = "running" /\ sock = "open" /\ flushing = <<>>
       /\ m.id \notin DOMAIN messageStore
       /\ MessagesUpsert(<<m>>)
  \/ phase # "saving" /\ Tick
  \/ \E i \in 1..Len(timers), o \in FlushOutcomes : phase # "saving" /\ TimerFire(i, o)
  \/ \E o \in FlushOutcomes : FlushStep(o)
  \/ \E o \in ImmediateOutcomes : GracefulShutdown(o)
  \/ \E o \in ImmediateOutcomes : ShutdownSave(o)
  \/ \E o \in {"ok", "error"} : ShutdownClose(o)
  \/ ShutdownExit
  \/ Start

SpecShutdown == Init /\ [][NextShutdown]_vars

\* Starts of the process over a data directory that a shutdown wrote and
\* that was changed while the process was stopped.
NextLoad ==
  \/ phase = "running" /\ "j1" \notin DOMAIN contactStore /\ ContactsSet(<<Contact("j1")>>)
  \/ phase = "running" /\ 1 \notin DOMAIN messageStore /\ MessagesUpsert(<<Message(1, "j1")>>)
  \/ phase = "running" /\ ~isFullySynced /\ HistorySet(<<>>, <<>>, <<>>, TRUE)
  \/ GracefulShutdown("ok")
  \/ ShutdownSave("ok")
  \/ ShutdownClose("ok")
  \/ \E n \in Names : RemoveFile(n)
  \/ \E n \in Names : DamageFile(n)
  \/ \E f \in DOMAIN DefaultMeta : EditMeta(f)
  \/ Start

SpecLoad == Init /\ [][NextLoad]_vars

\* Sweeps in a process that is killed and started again: no message is
\* delivered twice, flushes succeed or fail, and the stores of the next
\* start are what the files hold.
NextRestart ==
  \/ \E m \in {Message(1, "j1"), Message(2, "j1")} :
       /\ flushing = <<>>
       /\ m.id \notin DOMAIN messageStore \cup ThreadIds(chatStore) \cup trimmed
       /\ MessagesUpsert(<<m>>)
  \/ flushing = <<>> /\ PeriodicCleanup
  \/ Tick
  \/ \E i \in 1..Len(timers), o \in FlushOutcomes : TimerFire(i, o)
  \/ \E o \in FlushOutcomes : FlushStep(o)
  \/ Crash
  \/ Start

SpecRestart == Init /\ [][NextRestart]_vars

\* The store and the signals of the events that change it: contacts are
\* set and updated, history batches (the last one or not) and live
\* messages arrive, each message once.
NextSignals ==
  \/ \E j \in Jids : ContactsSet(<<Contact(j)>>)
  \/ \E j \in Jids \cup {NoJid} : ContactsUpdate(<<ContactUpdate(j)>>)
  \/ \E m \in Messages, cs \in {<<>>, <<Contact("j2")>>}, isLatest \in BOOLEAN :
       /\ m.id \notin DOMAIN messageStore
       /\ HistorySet(<<>>, cs, <<m>>, isLatest)
  \/ \E m \in Messages : m.id \notin DOMAIN messageStore /\ MessagesUpsert(<<m>>)

SpecSignals == Init /\ [][NextSignals]_vars

\* Batches of one or two messages, well-formed or not, live and historical.
BatchMessages == {NoIdMessage, NoThreadMessage, Message(1, "j1"), Message(3, "j1")}
Batches == {<<m>> : m \in BatchMessages} \cup {<<m, n>> : m, n \in BatchMessages}

NextBatch ==
  \/ \E b \in Batches : MessagesUpsert(b)
  \/ \E b \in Batches : HistorySet(<<>>, <<>>, b, FALSE)
  \/ LoggedOut

SpecBatch == Init /\ [][NextBatch]_vars

\* Logging out of a connected, syncing process with signals pending and
\* flushes under way.  Connection steps wait for a running flush (its awaits
\* resume before any event or timer) and sync steps for an empty queue,
\* which keeps the runs short; the logouts wait for nothing.
NextLogout ==
  \/ flushing = <<>> /\ Connect
  \/ flushing = <<>> /\ ConnectionUpdate("open")
  \/ flushing = <<>> /\ saveQueue = <<>> /\ SyncFull
  \/ flushing = <<>> /\ saveQueue = <<>> /\ SyncRetryFire
  \/ \E g \in {<<>>, <<"j1">>}, o \in {"ok", "error"} :
       flushing = <<>> /\ saveQueue = <<>> /\ SyncGroups(g, o)
  \/ flushing = <<>> /\ saveQueue = <<>> /\ SyncSettle
  \/ /\ saveQueue = <<>> /\ flushing = <<>> /\ contactStore = EmptyMap
     /\ HistorySet(<<>>, <<Contact("j1")>>, <<>>, TRUE)
  \/ Tick
  \/ \E i \in 1..Len(timers) : TimerFire(i, "ok")
  \/ FlushStep("ok")
  \/ LoggedOut
  \/ \E r \in {"api", "wml"}, o \in {"ok", "error"} : HttpLogout(r, o)

SpecLogout == Init /\ [][NextLogout]_vars

\* The chat lists of chats.set, chats.update and history batches: one or
\* two chats, a chat twice, a chat without id.
ChatEvents == {<<"j1">>, <<"j2">>, <<NoJid>>, <<"j1", "j2">>, <<"j1", "j1">>}

\* Threads created by chat events and by messages.
NextThreads ==
  \/ \E m \in Messages : MessagesUpsert(<<m>>)
  \/ \E e \in ChatEvents : ChatsSet(e)
  \/ \E e \in ChatEvents : HistorySet(e, <<>>, <<>>, FALSE)
  \/ LoggedOut

SpecThreads == Init /\ [][NextThreads]_vars

\* The contact lists of contacts.set, contacts.update and history batches:
\* a new or a renamed contact, a contact without id, two contacts, one
\* contact twice.
ContactEvents ==
  {<<c>> : c \in {Contact(j) : j \in Jids \cup {NoJid}}
                 \cup {ContactUpdate(j) : j \in Jids \cup {NoJid}}}
  \cup {<<Contact("j1"), Contact("j2")>>, <<Contact("j1"), ContactUpdate("j1")>>}

\* Contacts under contact events, among the operations that leave them alone.
NextContacts ==
  \/ \E e \in ContactEvents : ContactsSet(e)
  \/ \E e \in ContactEvents : ContactsUpdate(e)
  \/ \E e \in ContactEvents : HistorySet(<<>>, e, <<>>, FALSE)
  \/ messageStore = EmptyMap /\ MessagesUpsert(<<Message(1, "j1")>>)
  \/ PeriodicCleanup
  \/ LoggedOut

SpecContacts == Init /\ [][NextContacts]_vars

\* The cap scenario: messages 1, 2, ... are appended live to thread "j1",
\* one or two per event, while contacts and other chats arrive and the
\* scheduler flushes.
Appended == Cardinality(DOMAIN messageStore)

NextCap ==
  \/ \E n \in 1..2 :
       /\ Appended + n <= MaxAppends
       /\ flushing = <<>>
       /\ MessagesUpsert([i \in 1..n |-> Message(Appended + i, "j1")])
  \/ ChatsSet(<<"j2">>)
  \/ saveQueue = <<>> /\ ContactsSet(<<Contact("j1")>>)
  \/ Tick
  \/ \E i \in 1..Len(timers) : TimerFire(i, "ok")
  \/ FlushStep("ok")

SpecCap == Init /\ [][NextCap]_vars

\* Message ids as arrival stamps: every delivered message has an id above
\* every id held in memory or on disk, so that of two messages held
\* anywhere the one with the larger id arrived later.
FileIds(n) ==
  IF files[n].doc = <<>> THEN {}
  ELSE IF n = "messages" THEN {p[1] : p \in files[n].doc[1]}
  ELSE UNION {{p[2][k].id : k \in 1..Len(p[2])} : p \in files[n].doc[1]}
HeldIds ==
  DOMAIN messageStore \cup ThreadIds(chatStore) \cup FileIds("messages") \cup FileIds("chats")
ArrivingBatches ==
  {<<Message(i, "j1")>> : i \in MsgIds}
    \cup {<<Message(i, "j1"), Message(i + 1, "j1")>> : i \in 1..(MaxMsgId - 1)}

\* Threads under appends, history batches, sweeps, flushes and restarts.
NextOrder ==
  \/ \E b \in ArrivingBatches :
       /\ flushing = <<>>
       /\ \A i \in HeldIds : i < b[1].id
       /\ MessagesUpsert(b)
  \/ \E b \in ArrivingBatches :
       /\ flushing = <<>>
       /\ \A i \in HeldIds : i < b[1].id
       /\ HistorySet(<<>>, <<>>, b, FALSE)
  \/ flushing = <<>> /\ PeriodicCleanup
  \/ Tick
  \/ \E i \in 1..Len(timers), o \in FlushOutcomes : TimerFire(i, o)
  \/ \E o \in FlushOutcomes : FlushStep(o)
  \/ Crash
  \/ Start

SpecOrder == Init /\ [][NextOrder]_vars

\* Sweeps at any moment of the scheduler, between the writes of one flush
\* included, on threads that only sweeps shorten: live appends stay below
\* the cap and no message is delivered twice.
NextSweep ==
  \/ \E m \in Messages :
       /\ m.id \notin DOMAIN messageStore \cup ThreadIds(chatStore) \cup trimmed
       /\ "j1" \in DOMAIN chatStore => Len(chatStore["j1"]) < LiveCap
       /\ MessagesUpsert(<<m>>)
  \/ \E m \in Messages :
       /\ m.id \notin DOMAIN messageStore \cup ThreadIds(chatStore) \cup trimmed
       /\ HistorySet(<<>>, <<>>, <<m>>, FALSE)
  \/ PeriodicCleanup
  \/ Tick
  \/ \E i \in 1..Len(timers), o \in FlushOutcomes : TimerFire(i, o)
  \/ \E o \in FlushOutcomes : FlushStep(o)

SpecSweep == Init /\ [][NextSweep]_vars

\* Exports while events arrive, flushes run, and over a data directory that
\* was damaged while the process was stopped.  The periodic save and the
\* kill come before the first backup, which keeps the runs short.
NextExport ==
  \/ saveQueue = <<>> /\ flushing = <<>> /\ backups = <<>> /\ PeriodicSave
  \/ /\ flushing = <<>> /\ 1 \notin DOMAIN messageStore
     /\ MessagesUpsert(<<Message(1, "j1")>>)
  \/ Tick
  \/ \E i \in 1..Len(timers) : TimerFire(i, "ok")
  \/ FlushStep("ok")
  \/ ExportData
  \/ backups = <<>> /\ Crash
  \/ \E n \in {"contacts", "messages"} : DamageFile(n)
  \/ Start

SpecExport == Init /\ [][NextExport]_vars

\* The parts of a history batch: no chat or one, no contact or one, no
\* message or one.
HistoryChats == {<<>>, <<"j2">>}
HistoryContacts == {<<>>, <<Contact("j2")>>}
HistoryMessages == {<<>>} \cup {<<m>> : m \in Messages}

\* History batches, latest or not, and logouts, which reset isFullySynced.
NextHistory ==
  \/ \E c \in HistoryChats, cs \in HistoryContacts, ms \in HistoryMessages,
        isLatest \in BOOLEAN :
       /\ \A k \in 1..Len(ms) : ms[k].id \notin DOMAIN messageStore
       /\ HistorySet(c, cs, ms, isLatest)
  \/ LoggedOut

SpecHistory == Init /\ [][NextHistory]_vars

\* ================================================================ claims
QueuedTypes == {saveQueue[k].type : k \in 1..Len(saveQueue)}
FlushingTypes == {flushing[k].type : k \in 1..Len(flushing)}

\* C1 (SpecSched): however many signals for a name fall between the signal
\* that takes the scheduler from Idle to PendingFlush and the firing of its
\* timer, the flush of that timer calls saveToFile at most once for the name.
C1_CoalescedWrites == \A n \in Names : writes[n] <= 1

\* Two or more signals for a name in one window, flushed by one write.
C1_Witness ==
  alive /\ ~isProcessing /\ \E n \in Names : signals[n] = 2 /\ writes[n] = 1

C3_NoLostSignal ==
  alive => \A n \in Names :
    /\ late[n] = "queued" => n \in QueuedTypes /\ isProcessing /\ Len(timers) = 1
    /\ late[n] = "taken" => n \in FlushingTypes

\* A signal that arrived during a flush has been written by the next flush.
C3_Witness == \E n \in Names : late[n] = "done"

\* C4 (SpecSched): a pending scheduler has exactly one timer, due Debounce
\* seconds after the signal that left Idle whatever signals followed; an
\* idle scheduler has none; a flush starts Debounce seconds after that signal.
C4_TimerArmedOnce ==
  alive =>
    /\ isProcessing => timers = <<Debounce - age>>
    /\ ~isProcessing => timers = <<>>
    /\ lastOp = "fire" => age = Debounce

\* A signal arrived one second into the window and the timer kept its time.
C4_Witness ==
  /\ lastOp \in {"upsert", "saveAll"}
  /\ isProcessing /\ age = 1 /\ timers = <<Debounce - 1>>

\* C5 as claimed (SpecWrite): what a scheduled flush writes for a record is
\* the state of that record when it is written.
C5_FlushTimeSnapshot == lastWrite.doc = lastWrite.live

\* C6 (SpecWrite): a step leaves a target file as it was or replaces it by
\* the complete document the writer was handed: no target file is ever
\* partial, whatever the outcome of the write.
C6_WriteAtomic ==
  [][\A n \in Names :
       \/ files'[n] = files[n]
       \/ lastWrite'.type = n /\ files'[n] = Complete(lastWrite'.doc[1])]_vars

\* The process died between the temporary write and the rename, and the
\* target still holds its previous, different, complete content.
C6_Witness ==
  /\ ~alive
  /\ \E n \in Names :
       /\ ~tmpFiles[n].partial /\ tmpFiles[n].doc # <<>>
       /\ ~files[n].partial /\ files[n].doc # <<>>
       /\ tmpFiles[n].doc # files[n].doc

\* C7 as claimed (SpecStore): no message id has more than one entry in a
\* thread's sequence, however often the message was ingested.
C7_IdempotentAppend ==
  \A j \in DOMAIN chatStore : \A i \in MsgIds :
    Cardinality({k \in 1..Len(chatStore[j]) : chatStore[j][k].id = i}) <= 1

\* C8 as claimed (SpecFresh): every reference of a thread has an index entry
\* under its id, and every indexed message is in its owning thread.
C8_ThreadIndexConsistent ==
  /\ ThreadIds(chatStore) \subseteq DOMAIN messageStore
  /\ \A i \in DOMAIN messageStore :
       /\ messageStore[i].remoteJid \in DOMAIN chatStore
       /\ \E k \in 1..Len(chatStore[messageStore[i].remoteJid]) :
            chatStore[messageStore[i].remoteJid][k].id = i

\* C9 as claimed (SpecFresh): no thread is ever longer than the cap.
C9_BoundedGrowth == \A j \in DOMAIN chatStore : Len(chatStore[j]) <= LiveCap

\* C10 as claimed (SpecFresh): after a run of cleanupOldMessages no id that
\* trimming removed from a thread is left in the flat index.
C10_IndexCleanedBySweep == lastOp = "cleanup" => trimmed \cap DOMAIN messageStore = {}

\* C11 (SpecStore): a run of cleanupOldMessages cuts from every thread longer
\* than the maximum exactly its first L - maximum entries, keeps the other
\* entries in their order, leaves shorter threads alone, and no id of a cut
\* entry is left in the flat index.
C11_TrimResult ==
  [][lastOp' = "cleanup" =>
       /\ DOMAIN chatStore' = DOMAIN chatStore
       /\ \A j \in DOMAIN chatStore :
            LET L == Len(chatStore[j])
                cut == IF L > MaxMessagesPerChat THEN L - MaxMessagesPerChat ELSE 0
            IN /\ Len(chatStore'[j]) = L - cut
               /\ \A k \in 1..(L - cut) : chatStore'[j][k] = chatStore[j][cut + k]
               /\ \A k \in 1..cut : chatStore[j][k].id \notin DOMAIN messageStore']_vars

\* A sweep cut the two oldest entries of a thread of three and cleaned the index.
C11_Witness ==
  /\ lastOp = "cleanup" /\ lastSignals = {"messages", "chats"}
  /\ "j1" \in DOMAIN chatStore /\ Len(chatStore["j1"]) = MaxMessagesPerChat
  /\ chatStore["j1"][1].id = 3
  /\ {1, 2} \subseteq trimmed /\ DOMAIN messageStore = {3}

\* C12 as claimed (SpecStore): a run of cleanupOldMessages that shortens a
\* thread signals both "messages" and "chats", whether or not the entries
\* it cut had an entry in the flat index.
C12_TrimSignals ==
  [][(lastOp' = "cleanup" /\ \E j \in DOMAIN chatStore :
                               Len(chatStore'[j]) < Len(chatStore[j]))
       => {"messages", "chats"} \subseteq lastSignals']_vars

\* C13 as claimed (SpecShutdown): when the four immediate saves of a
\* shutdown have completed and nothing was written since, the next start
\* loads the contacts, threads, index and metadata that were in memory.
C13_RoundTrip == (lastOp = "load" /\ flushed # <<>>) => MemoryState = flushed[1]

\* The collection a name stands for.
Store(n) ==
  CASE n = "contacts" -> contactStore
    [] n = "chats" -> chatStore
    [] n = "messages" -> messageStore

\* Record n in memory is what file n holds (meta: each field of the file,
\* and the default for a field the file lacks).
LoadedAs(n) ==
  IF n = "meta"
  THEN LET d == files[n].doc[1]
       IN /\ isFullySynced = IF "isFullySynced" \in DOMAIN d THEN d.isFullySynced ELSE FALSE
          /\ syncAttempts = IF "syncAttempts" \in DOMAIN d THEN d.syncAttempts ELSE 0
  ELSE Entries(Store(n)) = files[n].doc[1]

\* Record n in memory is empty (meta: the defaults).
EmptyAs(n) ==
  IF n = "meta" THEN ~isFullySynced /\ syncAttempts = 0 ELSE Store(n) = EmptyMap

\* C14 as claimed (SpecLoad): when one file does not parse and the other
\* three are valid, the start loads these three in full and leaves only the
\* record of the corrupt file empty, wherever it is in the load order.
C14_CorruptFileIsolated ==
  lastOp = "load" =>
    \A n \in Names :
      (files[n].partial /\ \A m \in Names \ {n} : files[m] # Absent /\ ~files[m].partial)
        => EmptyAs(n) /\ \A m \in Names \ {n} : LoadedAs(m)

\* C15 (SpecLoad): when no file is corrupt, a start leaves the record of
\* every absent file empty (meta: the defaults), loads every file that is
\* there, and a meta file overrides the defaults field by field.
C15_MissingFiles ==
  (lastOp = "load" /\ \A n \in Names : ~files[n].partial) =>
    /\ alive
    /\ \A n \in Names : IF files[n] = Absent THEN EmptyAs(n) ELSE LoadedAs(n)

\* A start found no contacts file and a meta file without syncAttempts, and
\* loaded the thread and the isFullySynced of the files that were there.
C15_Witness ==
  /\ lastOp = "load"
  /\ files["contacts"] = Absent /\ contactStore = EmptyMap
  /\ files["chats"] # Absent /\ ~files["chats"].partial /\ chatStore # EmptyMap
  /\ files["messages"] # Absent /\ ~files["messages"].partial
  /\ files["meta"] # Absent /\ ~files["meta"].partial
  /\ DOMAIN files["meta"].doc[1] = {"isFullySynced", "lastSync"}
  /\ isFullySynced /\ syncAttempts = 0

\* C16 (SpecShutdown): a saveImmediately that returns to a running process
\* leaves the dirty set, isProcessing and the armed timers as they were, so
\* a flush that was pending is still pending.
C16_FlushNowBypassesScheduler ==
  [][(lastOp' = "saveImmediately" /\ alive')
       => saveQueue' = saveQueue /\ isProcessing' = isProcessing /\ timers' = timers]_vars

\* The timer that was pending during the four immediate saves has fired
\* after them and its flush has written the collection it held.
C16_Witness ==
  /\ phase = "closing" /\ saved = Len(ShutdownOrder)
  /\ lastOp = "fire" /\ lastWrite.type = "messages" /\ writes["messages"] = 1

\* C17 (SpecShutdown): a failed write or rename of saveImmediately (its
\* temporary file is left behind) reaches the catch
\* of its caller (exit status 1); a failed write of a scheduled flush is
\* logged and nothing else: the process runs on, the target file is as it
\* was, the operation is in no queue and no batch afterwards, no timer is
\* armed for it, and a flush writes only what was queued.
C17_FlushErrorSemantics ==
  [][/\ (lastOp' = "saveImmediately" /\ saved < Len(ShutdownOrder)
          /\ tmpFiles'[ShutdownOrder[saved + 1]] # Absent)
         => lastError' = "surfaced" /\ phase' = "exited" /\ exitCode' = 1
     /\ (lastOp' \in {"fire", "flush"} /\ (saveQueue # <<>> \/ flushing # <<>>))
         => LET n == lastWrite'.type
                fire == lastOp' = "fire"
            IN /\ n = IF fire THEN saveQueue[1].type ELSE flushing[1].type
               /\ lastError' = "logged" =>
                    /\ alive' /\ exitCode' = NoExit
                    /\ files'[n] = files[n]
                    /\ saveQueue' = IF fire THEN <<>> ELSE saveQueue
                    /\ isProcessing' = IF fire THEN FALSE ELSE isProcessing
                    /\ Len(timers') <= Len(timers)
                    /\ \A k \in 1..Len(flushing') : flushing'[k].type # n]_vars

\* A scheduled write of messages failed and was never repeated although the
\* chats of the same flush were written; later a failed immediate save of
\* contacts ended the shutdown with status 1.
C17_Witness ==
  /\ tmpFiles["messages"].partial /\ files["messages"] = Absent
  /\ files["chats"] # Absent
  /\ lastError = "surfaced" /\ exitCode = 1 /\ tmpFiles["contacts"].partial

\* C18 (SpecShutdown): sock.end() is called, and the process exits from
\* gracefulShutdown, only when the four immediate saves have completed or
\* one of them has failed.
C18_ShutdownOrdering ==
  /\ sock = "ended" => saved = Len(ShutdownOrder)
  /\ phase = "closing" => saved = Len(ShutdownOrder)
  /\ phase = "exited" => saved = Len(ShutdownOrder) \/ lastError = "surfaced"

\* A shutdown saved the four records, closed the connection and exited with 0.
C18_Witness ==
  /\ phase = "exited" /\ exitCode = 0 /\ sock = "ended" /\ saved = Len(ShutdownOrder)
  /\ \A n \in Names : files[n] # Absent

\* C19 as claimed (SpecShutdown): when an immediate save of the shutdown has
\* failed, the connection, if there is one, is still ended, and the process
\* exits with a status other than 0.
C19_FailureStillReleases ==
  (phase = "exited" /\ lastError = "surfaced") => sock # "open" /\ exitCode # 0

\* C20 as claimed (SpecSignals): an event that changes the contacts signals
\* "contacts" in the same step, and an event that appends a message signals
\* "messages" and "chats" in the same step.
C20_MutationSignals ==
  [][/\ (lastOp' \in {"contacts.set", "contacts.update", "history"}
          /\ contactStore' # contactStore)
         => "contacts" \in lastSignals'
     /\ (lastOp' \in {"upsert", "history"}
          /\ (messageStore' # messageStore \/ chatStore' # chatStore))
         => {"messages", "chats"} \subseteq lastSignals']_vars

\* C21 as claimed (SpecBatch): a message without an id or without an owning
\* thread key leaves no trace in the store: no index entry holds such a
\* message and no thread exists under the missing key.
C21_MalformedSkipped ==
  /\ NoJid \notin DOMAIN chatStore
  /\ \A i \in DOMAIN messageStore : messageStore[i].remoteJid # NoJid

\* C22 (SpecLogout): a logout path that clears leaves all three collections
\* empty, isFullySynced false and syncAttempts 0, and in that step writes no
\* file and changes neither the dirty set nor the scheduler state.
C22_ClearAllFrame ==
  [][lastOp' = "logout" =>
       /\ contactStore' = EmptyMap /\ chatStore' = EmptyMap /\ messageStore' = EmptyMap
       /\ ~isFullySynced' /\ syncAttempts' = 0
       /\ UNCHANGED <<files, tmpFiles>>
       /\ UNCHANGED <<saveQueue, isProcessing, timers, flushing>>]_vars

\* A logout has just cleared non-empty collections of a synced process that
\* had counted sync attempts, with a signal pending, a timer armed and a
\* file on disk.
C22_Witness ==
  /\ lastOp = "logout"
  /\ contactStore = EmptyMap /\ chatStore = EmptyMap /\ messageStore = EmptyMap
  /\ files["contacts"].doc # <<>> /\ files["contacts"].doc[1] # {}
  /\ saveQueue # <<>> /\ timers # <<>>
  /\ syncRetry > 0

\* C23 (SpecThreads): a chats.set/chats.update event, and the chat list of a
\* history batch, leaves the message sequence of every existing thread
\* unchanged and gives every key it adds an empty thread; applying any chat
\* list a second time changes nothing.
C23_EnsureThreadIdempotent ==
  [][/\ lastOp' \in {"chats.set", "history"} =>
          /\ \A j \in DOMAIN chatStore :
                j \in DOMAIN chatStore' /\ chatStore'[j] = chatStore[j]
          /\ \A j \in DOMAIN chatStore' \ DOMAIN chatStore : chatStore'[j] = <<>>
     /\ \A e \in ChatEvents :
          /\ EnsureThreads(EnsureThreads(chatStore, e), e) = EnsureThreads(chatStore, e)
          /\ \A j \in DOMAIN chatStore : EnsureThreads(chatStore, e)[j] = chatStore[j]
          /\ DOMAIN EnsureThreads(chatStore, e)
               = DOMAIN chatStore \cup {e[k] : k \in 1..Len(e)}]_vars

\* A chat event naming only a chat that already has messages has run.
C23_Witness ==
  /\ lastOp = "chats.set"
  /\ DOMAIN chatStore = {"j1"}
  /\ Len(chatStore["j1"]) = 2

\* The identity keys of a contact list.
ContactIds(e) == {e[k].id : k \in 1..Len(e)}

\* C24 (SpecContacts): a contact event stores every record it carries under
\* the record's id (of two records with one id, the later), leaves every
\* contact with another key unchanged, and no step of a running process
\* other than a logout removes a contact.
C24_UpsertContact ==
  [][/\ (alive' /\ lastOp' # "logout") =>
          \A j \in DOMAIN contactStore : j \in DOMAIN contactStore'
     /\ lastOp' \in {"contacts.set", "history"} =>
          \E e \in ContactEvents : contactStore' = PutContacts(contactStore, e)
     /\ lastOp' = "contacts.update" =>
          \E e \in ContactEvents : contactStore' = PutContacts(contactStore, WithId(e))
     /\ \A e \in ContactEvents :
          LET after == PutContacts(contactStore, e)
          IN /\ \A k \in 1..Len(e) :
                  (\A l \in (k + 1)..Len(e) : e[l].id # e[k].id) => after[e[k].id] = e[k]
             /\ \A j \in DOMAIN contactStore \ ContactIds(e) : after[j] = contactStore[j]
             /\ DOMAIN after = DOMAIN contactStore \cup ContactIds(e)]_vars

\* An update has replaced the record of one contact and the other contact
\* is as it was stored.
C24_Witness ==
  /\ lastOp = "contacts.update"
  /\ DOMAIN contactStore = {"j1", "j2"}
  /\ contactStore["j1"] = ContactUpdate("j1")
  /\ contactStore["j2"] = Contact("j2")

\* C25 (SpecCap): after k live appends with ids 1..k to an empty thread, the
\* thread is exactly the last min(k, LiveCap) appended messages in arrival
\* order, and the flat index holds each of them.
C25_CapScenario ==
  LET k == Appended
      kept == Min(k, LiveCap)
      thread == IF "j1" \in DOMAIN chatStore THEN chatStore["j1"] ELSE <<>>
  IN /\ thread = [i \in 1..kept |-> Message(k - kept + i, "j1")]
     /\ \A i \in 1..Len(thread) :
          /\ thread[i].id \in DOMAIN messageStore
          /\ messageStore[thread[i].id] = thread[i]

\* MaxAppends messages were appended, so the cap has dropped several times.
C25_Witness ==
  /\ Appended = MaxAppends
  /\ MaxAppends - LiveCap >= 2
  /\ Len(chatStore["j1"]) = LiveCap
  /\ chatStore["j1"][1].id = MaxAppends - LiveCap + 1

\* The entries of a thread are in arrival order.
InArrivalOrder(thread) ==
  \A a, b \in 1..Len(thread) : a < b => thread[a].id < thread[b].id

\* C26 (SpecOrder): every thread in memory and every thread of the chats
\* file holds its messages in arrival order, and what a retention trim to
\* any bound keeps of a thread is in arrival order too.
C26_ArrivalOrder ==
  /\ \A j \in DOMAIN chatStore :
       /\ InArrivalOrder(chatStore[j])
       /\ \A max \in 1..MaxThreadLen : InArrivalOrder(KeptMessages(chatStore[j], max))
  /\ files["chats"].doc # <<>> =>
       \A p \in files["chats"].doc[1] : InArrivalOrder(p[2])

\* A thread of three messages was flushed and loaded again.
C26_Witness ==
  /\ lastOp = "load"
  /\ "j1" \in DOMAIN chatStore
  /\ Len(chatStore["j1"]) = MaxThreadLen

\* C27 (SpecSweep): a sweep step writes nothing, and a step that writes the
\* chats or the messages file changes neither collection, writes the
\* collection as it is in that step, and finds no half-applied trim: no id
\* a sweep took out of a thread is still in the index.
C27_FlushSweepExclusion ==
  [][/\ lastOp' = "cleanup" => UNCHANGED <<files, tmpFiles>>
     /\ \A n \in {"chats", "messages"} :
          (files'[n] # files[n] \/ tmpFiles'[n] # tmpFiles[n]) =>
            /\ UNCHANGED <<chatStore, messageStore>>
            /\ trimmed \cap DOMAIN messageStore = {}
            /\ files'[n] # files[n] => files'[n] = Complete(LiveDoc(n))]_vars

\* The chats file was written after a sweep had shortened a thread.
C27_Witness ==
  /\ lastOp \in {"fire", "flush"}
  /\ trimmed # {}
  /\ writes["chats"] = 1
  /\ files["chats"] = Complete(LiveDoc("chats"))
  /\ files["messages"] # Complete(LiveDoc("messages"))

\* C28 (SpecExport): exportData adds one file to the backups directory,
\* holding what loadAllData reads from the four record files (each file's
\* content when all four are there and parse), and leaves the record files,
\* the collections in memory, the dirty set and the scheduler unchanged; no
\* other step changes the backups.
C28_ExportIsolated ==
  [][IF lastOp' = "export"
     THEN /\ UNCHANGED <<files, tmpFiles>>
          /\ UNCHANGED <<contactStore, chatStore, messageStore, isFullySynced, syncAttempts>>
          /\ UNCHANGED <<saveQueue, isProcessing, timers, flushing>>
          /\ Len(backups') = Len(backups) + 1
          /\ SubSeq(backups', 1, Len(backups)) = backups
          /\ LET b == backups'[Len(backups')]
                 d == LoadAllData(files)
             IN /\ b.contacts = Entries(d.contacts) /\ b.chats = Entries(d.chats)
                /\ b.messages = Entries(d.messages) /\ b.meta = d.meta
                /\ (\A n \in Names : files[n].doc # <<>>) =>
                     /\ \A n \in Names \ {"meta"} : b[n] = files[n].doc[1]
                     /\ b.meta = Merge(DefaultMeta, files["meta"].doc[1])
     ELSE UNCHANGED backups]_vars

\* An export has copied four written files whose contacts and messages
\* differ from what is in memory, with a signal pending.
C28_Witness ==
  /\ lastOp = "export"
  /\ \A n \in Names : files[n].doc # <<>>
  /\ backups[Len(backups)].contacts = files["contacts"].doc[1]
  /\ backups[Len(backups)].messages = files["messages"].doc[1]
  /\ backups[Len(backups)].messages # Entries(messageStore)
  /\ saveQueue # <<>>

\* C29 (SpecHistory): a history batch with isLatest sets isFullySynced and
\* signals all four names, the collections as live references and a meta
\* object that counts the collections as they are after the batch; a batch
\* without isLatest leaves isFullySynced as it was and signals nothing.
C29_HistoryCompletion ==
  [][/\ (\E c \in HistoryChats, cs \in HistoryContacts, ms \in HistoryMessages :
            HistorySet(c, cs, ms, TRUE)) =>
          /\ isFullySynced'
          /\ lastSignals' = Names
          /\ isProcessing'
          /\ \A n \in Names \ {"meta"} :
                \E k \in 1..Len(saveQueue') : saveQueue'[k] = [type |-> n, data |-> LiveRef]
          /\ \E k \in 1..Len(saveQueue') :
                saveQueue'[k] =
                  [type |-> "meta",
                   data |-> Value(MetaSnapshot(contactStore', chatStore', messageStore',
                                               TRUE, syncAttempts'))]
     /\ (\E c \in HistoryChats, cs \in HistoryContacts, ms \in HistoryMessages :
            HistorySet(c, cs, ms, FALSE)) =>
          /\ isFullySynced' = isFullySynced
          /\ lastSignals' = {}]_vars

\* The latest batch queued a meta object that counts a contact, two
\* threads and two messages.
C29_Witness ==
  /\ lastOp = "history"
  /\ isFullySynced
  /\ lastSignals = Names
  /\ \E k \in 1..Len(saveQueue) :
       /\ saveQueue[k].type = "meta"
       /\ saveQueue[k].data.val[1].contactsCount = 1
       /\ saveQueue[k].data.val[1].chatsCount = 2
       /\ saveQueue[k].data.val[1].messagesCount = 2

\* C30 as claimed (SpecContacts): after a contacts.set event the contact
\* collection holds exactly the contacts that event carried.
C30_ContactsSetReplaces ==
  [][lastOp' = "contacts.set" =>
       \E e \in ContactEvents : contactStore' = PutContacts(EmptyMap, e)]_vars

\* C31 (SpecSched): between operations the dirty set is non-empty only
\* while isProcessing is set, isProcessing is set exactly when a debounce
\* timer is armed, and no more than one debounce timer is armed.
C31_SchedulerInvariant ==
  /\ saveQueue # <<>> => isProcessing
  /\ isProcessing <=> timers # <<>>
  /\ Len(timers) <= 1

\* A flush is between two of its writes while new signals wait behind one
\* armed timer.
C31_Witness ==
  /\ flushing # <<>>
  /\ saveQueue # <<>>
  /\ isProcessing
  /\ Len(timers) = 1

\* C32 (SpecSched): whatever the outcome of a write of a scheduled flush,
\* the operations behind it in the batch stay in the running flush and are
\* handed to saveToFile in their turn, and no failure leaves
\* processSaveQueue: nothing surfaces and the process does not exit.
C32_FlushFailureIsolated ==
  [][(lastOp' \in {"fire", "flush"} /\ alive') =>
       LET batch == IF lastOp' = "fire" THEN saveQueue ELSE flushing
       IN /\ batch # <<>> =>
               /\ flushing' = Tail(batch)
               /\ lastWrite'.type = batch[1].type
               /\ writes'[batch[1].type] >= 1
          /\ lastError' \in {"none", "logged"}
          /\ exitCode' = NoExit]_vars

\* A flush has ended whose write of contacts failed and whose last write,
\* of meta, succeeded.
C32_Witness ==
  /\ lastOp = "flush"
  /\ flushing = <<>>
  /\ writes["contacts"] = 1 /\ files["contacts"] = Absent
  /\ writes["meta"] = 1 /\ files["meta"] # Absent
  /\ lastWrite.type = "meta" /\ lastError = "none"

\* A shutdown among the timers: a message arrives, the ten-minute saveAll
\* and the debounce timer run before, during and after the saves of
\* gracefulShutdown, writes succeed or fail, and gracefulShutdown is called
\* a second time while the first call awaits sock.end().
NextReentry ==
  \/ Connect
  \/ /\ phase = "running" /\ sock = "open" /\ flushing = <<>>
     /\ 1 \notin DOMAIN messageStore
     /\ MessagesUpsert(<<Message(1, "j1")>>)
  \/ flushing = <<>> /\ saveQueue = <<>> /\ PeriodicSave
  \/ Tick
  \/ \E i \in 1..Len(timers), o \in FlushOutcomes : phase # "saving" /\ TimerFire(i, o)
  \/ \E o \in FlushOutcomes : FlushStep(o)
  \/ \E o \in FlushOutcomes : GracefulShutdown(o)
  \/ \E o \in FlushOutcomes : ShutdownSave(o)
  \/ \E o \in {"ok", "error"} : ShutdownClose(o)
  \/ ShutdownExit
  \/ GracefulShutdownAgain(0, "ok")
  \/ \E k \in 1..(Len(ShutdownOrder) + 1) : GracefulShutdownAgain(k, "write_error")

SpecReentry == Init /\ [][NextReentry]_vars

\* C33 (SpecReentry): the step of gracefulShutdown that clears the
\* collections and exits with 0 writes no file and leaves the contacts,
\* chats and messages files holding the collections as they were before
\* the clear; with it the process, its debounce timers and its dirty set
\* are gone, and no file is written by any later step.
C33_ClearedNeverPersisted ==
  /\ [][(phase' = "exited" /\ exitCode' = 0 /\ phase # "exited") =>
          /\ files' = files
          /\ \A n \in {"contacts", "chats", "messages"} :
               files[n] = Complete(Serialize(n, LiveRef, contactStore, chatStore,
                                             messageStore))
          /\ contactStore' = EmptyMap /\ chatStore' = EmptyMap /\ messageStore' = EmptyMap
          /\ timers' = <<>> /\ saveQueue' = <<>> /\ flushing' = <<>>]_vars
  /\ [][phase = "exited" => files' = files]_vars

\* gracefulShutdown has cleared the collections and exited with 0, and the
\* messages file holds the message that was in them at the shutdown flush.
C33_Witness ==
  /\ phase = "exited" /\ exitCode = 0 /\ lastOp = "exit"
  /\ flushed # <<>> /\ 1 \in DOMAIN flushed[1].messages
  /\ messageStore = EmptyMap /\ chatStore = EmptyMap
  /\ files["messages"] = Complete(Serialize("messages", LiveRef, flushed[1].contacts,
                                             flushed[1].chats, flushed[1].messages))
  /\ files["messages"] # Complete({})

\* Live appends next to history batches: history builds threads past the
\* ingestion cap, live messages (new or delivered again) are appended one
\* per event, chats are announced, the sweep runs and a logout clears.
AppendMessages == Messages \cup {Message(1, "j2")}

NextAppend ==
  \/ \E m \in AppendMessages \cup {NoIdMessage} : MessagesUpsert(<<m>>)
  \/ \E m \in Messages : HistorySet(<<>>, <<>>, <<m>>, FALSE)
  \/ \E j \in Jids : ChatsSet(<<j>>)
  \/ PeriodicCleanup
  \/ LoggedOut

SpecAppend == Init /\ [][NextAppend]_vars

\* The length of thread j, 0 when there is no such thread.
ThreadLen(chats, j) == IF j \in DOMAIN chats THEN Len(chats[j]) ELSE 0

\* C34 (SpecAppend): a messages.upsert event of one message with an id,
\* for a thread of length n, leaves the thread with the message at its end
\* and length n + 1 when n < LiveCap, and length n, only its front entry
\* gone, when n >= LiveCap; no other thread changes and the flat index
\* changes only in the entry of the appended id, so a dropped message
\* that was indexed stays indexed.  A thread gets shorter or disappears only in a retention
\* sweep or a clear.
C34_LiveAppendDropsAtMostOne ==
  /\ [][\A m \in AppendMessages :
          MessagesUpsert(<<m>>) =>
            LET j == m.remoteJid
                n == ThreadLen(chatStore, j)
                old == IF j \in DOMAIN chatStore THEN chatStore[j] ELSE <<>>
            IN /\ DOMAIN chatStore' = DOMAIN chatStore \cup {j}
               /\ Len(chatStore'[j]) = IF n < LiveCap THEN n + 1 ELSE n
               /\ chatStore'[j] = IF n < LiveCap THEN Append(old, m)
                                  ELSE Append(Tail(old), m)
               /\ \A k \in DOMAIN chatStore \ {j} : chatStore'[k] = chatStore[k]
               /\ messageStore' = Put(messageStore, m.id, m)
               /\ (n >= LiveCap /\ old[1].id \in DOMAIN messageStore)
                    => old[1].id \in DOMAIN messageStore']_vars
  /\ [][(\E j \in DOMAIN chatStore : ThreadLen(chatStore', j) < Len(chatStore[j]))
          => lastOp' \in {"cleanup", "logout"}]_vars

\* A live append to a thread that history had built past the cap: the
\* thread keeps its length, message 1 left it and is still indexed.
C34_Witness ==
  /\ lastOp = "upsert"
  /\ "j1" \in DOMAIN chatStore
  /\ Len(chatStore["j1"]) = MaxThreadLen
  /\ 1 \notin ThreadIds(chatStore)
  /\ 1 \in DOMAIN messageStore

\* Sweeps over a store that holds contacts, metadata set by a last history
\* batch, threads at, under and over the retention limit, and references
\* that are indexed or not; history batches that are not the last signal
\* nothing, so sweeps run with and without a pending flush.
NextFrame ==
  \/ MessagesUpsert(<<Message(1, "j2")>>)
  \/ \E m \in {Message(1, "j1"), Message(2, "j1")}, isLatest \in BOOLEAN :
       HistorySet(<<>>, <<>>, <<m>>, isLatest)
  \/ contactStore = EmptyMap /\ ContactsSet(<<Contact("j1")>>)
  \/ PeriodicCleanup

SpecFrame == Init /\ [][NextFrame]_vars

\* The references a step removed from the front of thread j.
FrontRemoved(j) ==
  {chatStore[j][k].id : k \in 1..(Len(chatStore[j]) - Len(chatStore'[j]))}

\* C35 (SpecFrame): a sweep leaves the set of thread keys, every thread
\* within the retention limit, every index entry whose id is not among the
\* references it removed from the threads, the contacts and the metadata as
\* they were, and adds nothing to the index; a sweep that removes no index
\* entry signals nothing: the dirty set, the debounce timer and the
\* processing flag are as before.
C35_SweepFrame ==
  [][PeriodicCleanup =>
       /\ DOMAIN chatStore' = DOMAIN chatStore
       /\ \A j \in DOMAIN chatStore :
            Len(chatStore[j]) <= MaxMessagesPerChat => chatStore'[j] = chatStore[j]
       /\ DOMAIN messageStore' \subseteq DOMAIN messageStore
       /\ \A i \in DOMAIN messageStore \ UNION {FrontRemoved(j) : j \in DOMAIN chatStore} :
            i \in DOMAIN messageStore' /\ messageStore'[i] = messageStore[i]
       /\ UNCHANGED <<contactStore, isFullySynced, syncAttempts>>
       /\ DOMAIN messageStore' = DOMAIN messageStore =>
            lastSignals' = {} /\ UNCHANGED <<saveQueue, isProcessing, timers>>]_vars

\* A sweep over contacts, set metadata, one thread within the limit and one
\* over it has removed an index entry and kept another.
C35_Witness ==
  /\ lastOp = "cleanup"
  /\ contactStore # EmptyMap /\ isFullySynced
  /\ DOMAIN chatStore = {"j1", "j2"}
  /\ trimmed # {} /\ trimmed \cap DOMAIN messageStore = {}
  /\ messageStore # EmptyMap
  /\ lastSignals = {"messages", "chats"}

\* A connection that opens, closes and is opened again by its reconnect
\* timers, while history fills the store and performInitialSync counts its
\* attempts.
NextConn ==
  \/ Connect
  \/ \E c \in {"connecting", "open"} : ConnectionUpdate(c)
  \/ ConnectionClose
  \/ \E i \in 1..Len(reconnects), o \in {"ok", "error"} : ReconnectFire(i, o)
  \/ LoggedOut
  \/ \E isLatest \in BOOLEAN :
       /\ messageStore = EmptyMap
       /\ HistorySet(<<"j2">>, <<Contact("j1")>>, <<Message(1, "j1")>>, isLatest)
  \/ SyncFull
  \/ SyncRetryFire
  \/ \E g \in {<<>>, <<"j1">>}, o \in {"ok", "error"} : SyncGroups(g, o)
  \/ SyncSettle

SpecConn == Init /\ [][NextConn]_vars

\* C36 (SpecConn): a connection.update with "open" sets isFullySynced to
\* false and syncAttempts to 0 and leaves the three collections as they
\* were; a close with reason loggedOut empties the three collections, resets
\* both fields and arms no reconnect; a close with another reason leaves
\* collections and metadata as they were and arms exactly one reconnect.
C36_ConnectionTransitions ==
  [][/\ (lastOp' = "connection.update" /\ connectionState' = "open") =>
          /\ ~isFullySynced' /\ syncAttempts' = 0
          /\ UNCHANGED <<contactStore, chatStore, messageStore>>
     /\ lastOp' = "logout" =>
          /\ contactStore' = EmptyMap /\ chatStore' = EmptyMap /\ messageStore' = EmptyMap
          /\ ~isFullySynced' /\ syncAttempts' = 0
          /\ reconnects' = reconnects
     /\ lastOp' = "connection.close" =>
          /\ UNCHANGED <<contactStore, chatStore, messageStore, isFullySynced,
                         syncAttempts>>
          /\ Len(reconnects') = Len(reconnects) + 1
          /\ SubSeq(reconnects', 1, Len(reconnects)) = reconnects]_vars

\* A close with a reason other than loggedOut, after one sync attempt over
\* a filled and synced store, has armed a reconnect with the backoff of one
\* attempt and changed nothing else.
C36_Witness ==
  /\ lastOp = "connection.close"
  /\ connectionState = "close"
  /\ reconnects = <<Backoff(1)>>
  /\ syncAttempts = 1 /\ isFullySynced
  /\ contactStore # EmptyMap /\ chatStore # EmptyMap /\ messageStore # EmptyMap

\* performInitialSync calls that have not reached their verdict.
SyncRunning == syncFetching + syncSettling

\* C37 (SpecConn): a call of performInitialSync without a socket or with a
\* connection that is not open changes nothing; any other call adds exactly
\* one to syncAttempts when it starts.  The step that ends an attempt sets
\* isFullySynced exactly when contacts and chats are both non-empty then,
\* and arms exactly one retry otherwise; no step of performInitialSync sets
\* isFullySynced to false, arms a retry anywhere else, or changes contacts
\* or the index.
C37_SyncAccounting ==
  [][/\ (SyncFull \/ SyncRetryFire) =>
          /\ syncRetry' <= syncRetry
          /\ UNCHANGED <<contactStore, chatStore, messageStore, isFullySynced, syncSettling>>
          /\ IF sock = "none" \/ connectionState # "open"
             THEN UNCHANGED <<syncAttempts, syncFetching>>
             ELSE syncAttempts' = syncAttempts + 1 /\ syncFetching' = syncFetching + 1
     /\ lastOp' = "sync" =>
          /\ isFullySynced => isFullySynced'
          /\ UNCHANGED <<contactStore, messageStore>>
          /\ IF SyncRunning' < SyncRunning
             THEN /\ UNCHANGED syncAttempts
                  /\ IF DOMAIN contactStore' # {} /\ DOMAIN chatStore' # {}
                     THEN isFullySynced' /\ syncRetry' = syncRetry
                     ELSE isFullySynced' = isFullySynced /\ syncRetry' = syncRetry + 1
             ELSE isFullySynced' = isFullySynced /\ syncRetry' <= syncRetry]_vars

\* An attempt over an open connection has ended without contacts: it was
\* counted, the store is not marked synced and one retry is armed.
C37_Witness ==
  /\ lastOp = "sync"
  /\ connectionState = "open"
  /\ SyncRunning = 0
  /\ syncAttempts = 1
  /\ syncRetry = 1
  /\ ~isFullySynced
  /\ contactStore = EmptyMap /\ chatStore # EmptyMap

\* --------------------------------------------- loadChatUtils.loadChatHistory
\* What sock.loadMessages can answer: a batch of messages (empty or not),
\* nothing (null or undefined), or a rejection.
Missing == [kind |-> "missing", batch |-> <<>>]
Throws == [kind |-> "throws", batch |-> <<>>]
Batch(b) == [kind |-> "batch", batch |-> b]
Replies ==
  {Missing, Throws, Batch(<<>>), Batch(<<Message(1, "j1")>>), Batch(<<NoIdMessage>>),
   Batch(<<Message(2, "j1"), NoIdMessage, Message(3, "j1")>>)}

\* Every sequence of at most n replies.
RECURSIVE ReplySeqs(_)
ReplySeqs(n) ==
  IF n = 0 THEN {<<>>}
  ELSE ReplySeqs(n - 1) \cup {Append(q, r) : q \in {x \in ReplySeqs(n - 1) : Len(x) = n - 1},
                                             r \in Replies}

\* loadChatUtils.js:1-165: the identifiers the module declares or requires
\* besides its own functions.  It has no require and no declaration: sock,
\* logger, formatJid, saveMessageToDB and delay are free in it, and the
\* bindings of serverWml.js (let sock, const logger, ...) are local to that
\* module.
ModuleScope == {}

\* loadChatUtils.js:22  if (!msg.key?.id) continue
WithKeyId(batch) == SelectSeq(batch, LAMBDA m : m.id # NoId)

\* loadChatUtils.js:17-29: the while loop.  all and db are allMessages and
\* what saveMessageToDB was handed so far, n the fetches made; an
\* exhausted upstream answers with an empty batch.
RECURSIVE FetchLoop(_, _, _, _)
FetchLoop(replies, all, db, n) ==
  IF replies = <<>>
  THEN [outcome |-> "returned", result |-> all, saved |-> db, fetches |-> n + 1]
  ELSE LET r == Head(replies)
       IN CASE r.kind = "throws" ->
                 [outcome |-> "returned", result |-> <<>>, saved |-> db, fetches |-> n + 1]
            [] r.kind = "missing" \/ r.batch = <<>> ->
                 [outcome |-> "returned", result |-> all, saved |-> db, fetches |-> n + 1]
            [] OTHER ->
                 FetchLoop(Tail(replies), all \o WithKeyId(r.batch),
                           db \o WithKeyId(r.batch), n + 1)

\* loadChatUtils.js:3-37 loadChatHistory.  Its first statement reads sock
\* outside the try: with sock unbound in the module the read throws a
\* ReferenceError and the call rejects; with it bound, a missing socket
\* returns [] and otherwise the loop runs.
LoadChatHistory(hasSock, replies) ==
  IF "sock" \notin ModuleScope
  THEN [outcome |-> "rejected", result |-> <<>>, saved |-> <<>>, fetches |-> 0]
  ELSE IF ~hasSock
  THEN [outcome |-> "returned", result |-> <<>>, saved |-> <<>>, fetches |-> 0]
  ELSE FetchLoop(replies, <<>>, <<>>, 0)

\* A call of loadChatHistory with the replies the upstream will give.
LoadChatHistoryCall(hasSock, replies) ==
  /\ alive
  /\ LET r == LoadChatHistory(hasSock, replies)
     IN paging' = [status |-> "done", hasSock |-> hasSock, replies |-> replies,
                   outcome |-> r.outcome, result |-> r.result, saved |-> r.saved,
                   fetches |-> r.fetches]
  /\ lastOp' = "loadChatHistory"
  /\ lastSignals' = {}
  /\ UNCHANGED <<storeVars, schedVars, files, tmpFiles, backups, alive, lifeVars, age,
                 signals, writes, late, owed, lastWrite, trimmed, lastError, flushed>>

\* Calls of loadChatHistory with and without a socket, over every course
\* the upstream can take.
NextPaging ==
  \/ Connect
  \/ \E q \in ReplySeqs(MaxFetches) : LoadChatHistoryCall(sock # "none", q)

SpecPaging == Init /\ [][NextPaging]_vars

\* The first reply that ends the paging: an empty or missing batch or a
\* rejection; one past the end when every reply is a non-empty batch.
StopAt(replies) ==
  LET ends == {i \in 1..Len(replies) :
                 replies[i].kind # "batch" \/ replies[i].batch = <<>>}
  IN IF ends = {} THEN Len(replies) + 1 ELSE CHOOSE i \in ends : \A k \in ends : i <= k

\* The messages with an id of the first n replies, in fetch order.
RECURSIVE Fetched(_, _)
Fetched(replies, n) ==
  IF n = 0 THEN <<>>
  ELSE Fetched(replies, n - 1) \o SelectSeq(replies[n].batch, LAMBDA m : m.id # NoId)

\* C38 as claimed (SpecPaging): a call of loadChatHistory ends by
\* returning; without a socket it returns the empty list and fetches
\* nothing; with one it fetches up to the first empty, missing or rejected
\* reply and no further, returns the empty list when that reply was a
\* rejection and otherwise every message with an id of the batches before
\* it, in fetch order, and has saved exactly the messages with an id of
\* those batches.
C38_HistoryPaging ==
  paging.status = "done" =>
    /\ paging.outcome = "returned"
    /\ IF ~paging.hasSock
       THEN paging.result = <<>> /\ paging.fetches = 0 /\ paging.saved = <<>>
       ELSE LET stop == StopAt(paging.replies)
                threw == stop <= Len(paging.replies) /\ paging.replies[stop].kind = "throws"
            IN /\ paging.fetches = stop
               /\ paging.saved = Fetched(paging.replies, stop - 1)
               /\ paging.result = IF threw THEN <<>> ELSE paging.saved

====
